---- MODULE Spec2Model ----
(***************************************************************************)
(* robot-universal-cla: the CLA gate of a pull request.                    *)
(*                                                                         *)
(* One evaluation (checkIfAllSignedCLA) is a sequence of calls to the      *)
(* platform client and to the CLA signature service.  Every action below   *)
(* is one such call together with the local computation that follows it    *)
(* up to the next call.  Strings that the code formats or searches         *)
(* (comment templates, comment bodies, URLs) are sequences of tokens.      *)
(***************************************************************************)
EXTENDS Integers, Sequences, FiniteSets

VARIABLES
    labels,            \* platform: the PR's LabelSet
    comments,          \* platform: the PR's comments, <<[ID, Body], ...>>
    nextId,            \* platform: ID given to the next created comment
    CheckByCommitter,  \* repoConfig.CheckByCommitter
    calls,             \* every client call made so far, in order
    ev,                \* ev[p]: position and locals of evaluation p
    pr0                \* history: the PR's labels and comments at the start

vars == <<labels, comments, nextId, CheckByCommitter, calls, ev, pr0>>

----------------------------------------------------------------------------
(* Bounds *)

MaxCommits == 2

(* calls of the reconciliation made one after the other on one PR *)
MaxRounds == 2

----------------------------------------------------------------------------
(* Configuration (configuration and repoConfig of config.go) *)

CLALabelYes == "cla/yes"
CLALabelNo == "cla/no"
OtherLabel == "kind/bug"
CheckURL == "https://cla/check"
SignURL == "https://cla/sign"
FAQURL == "https://cla/faq"
LitePRCommitterEmail == "e0"

PlaceholderCommitter == "__committer__"
UserMarkFormat == <<"@", "__committer__">>
CommentCommandTrigger == <<"check failed, comment /check-cla to retry">>
CommentPRNoCommits == <<"the PR has no commits">>
CommentUpdateLabelFailed == <<"updating the CLA label failed">>
PlaceholderCLASignGuideTitle == "### CLA Signature Guide"
PlaceholderCLASignPassTitle == "### CLA Signature Pass"
CommentAllSigned == <<"### CLA Signature Pass", "__committer__", "thanks">>
CommentSomeNeedSign ==
    <<"### CLA Signature Guide", "%s", "sign at", "%s", "faq at", "%s">>

(* client.CLASignStateYes / No / Unknown, and an unrecognised token *)
CLASignStateYes == "yes"
CLASignStateNo == "no"
CLASignStateUnknown == "unknown"
SignStates == {"yes", "no", "unknown", "YES"}

----------------------------------------------------------------------------
(* Strings as token sequences *)

RECURSIVE Flatten(_)
Flatten(ss) == IF ss = <<>> THEN <<>> ELSE Head(ss) \o Flatten(Tail(ss))

(* strings.Join(elems, sep): elems a sequence of token sequences *)
RECURSIVE Join(_, _)
Join(elems, sep) ==
    IF elems = <<>> THEN <<>>
    ELSE IF Len(elems) = 1 THEN elems[1]
    ELSE elems[1] \o <<sep>> \o Join(Tail(elems), sep)

(* strings.ReplaceAll(s, old, new): old one token, new a token sequence; the
   empty old matches before every token (a token standing for a rune) and
   at the end of s *)
ReplaceAll(s, old, new) ==
    IF old = ""
    THEN new \o Flatten([k \in 1..Len(s) |-> <<s[k]>> \o new])
    ELSE Flatten([k \in 1..Len(s) |-> IF s[k] = old THEN new ELSE <<s[k]>>])

(* the verbs of fmt that take an operand; "%%" is a token of its own *)
Verbs == {"%s", "%v", "%d"}

(* fmt: a verb that finds no operand left *)
Missing(verb) ==
    CASE verb = "%s" -> "%!s(MISSING)"
      [] verb = "%v" -> "%!v(MISSING)"
      [] verb = "%d" -> "%!d(MISSING)"

(* fmt: a string operand under a verb; %d is no verb for a string *)
Operand(verb, arg) ==
    IF verb = "%d" THEN <<"%!d(string=">> \o arg \o <<")">> ELSE arg

(* fmt: the operands no verb has taken are reported after the text *)
Extra(args) ==
    IF args = <<>> THEN <<>>
    ELSE <<"%!(EXTRA ">>
         \o Join([k \in 1..Len(args) |-> <<"string=">> \o args[k]], ", ")
         \o <<")">>

(* fmt.Sprintf(format, args...) with string operands: the k-th verb takes
   args[k] *)
RECURSIVE Sprintf(_, _)
Sprintf(format, args) ==
    IF format = <<>> THEN Extra(args)
    ELSE IF Head(format) = "%%"
    THEN <<"%">> \o Sprintf(Tail(format), args)
    ELSE IF Head(format) \notin Verbs
    THEN <<Head(format)>> \o Sprintf(Tail(format), args)
    ELSE IF args = <<>>
    THEN <<Missing(Head(format))>> \o Sprintf(Tail(format), args)
    ELSE Operand(Head(format), Head(args))
         \o Sprintf(Tail(format), Tail(args))

(* strings.Contains(body, marker) for a one-token marker; the empty string
   is contained in every string *)
Contains(body, marker) ==
    marker = "" \/ \E k \in 1..Len(body) : body[k] = marker

(* slices.Contains *)
SliceContains(s, x) == \E k \in 1..Len(s) : s[k] = x

(* url.QueryEscape on the label names in use: "/" becomes "%2F" *)
QueryEscape(label) ==
    CASE label = "cla/yes" -> "cla%2Fyes"
      [] label = "cla/no" -> "cla%2Fno"
      [] label = "kind/bug" -> "kind%2Fbug"
      [] OTHER -> label

(* The platform decodes the label name carried in the request path *)
PathUnescape(arg) ==
    CASE arg = "cla%2Fyes" -> "cla/yes"
      [] arg = "cla%2Fno" -> "cla/no"
      [] arg = "kind%2Fbug" -> "kind/bug"
      [] OTHER -> arg

----------------------------------------------------------------------------
(* Commits (client.PRCommit) *)

Person(name, email) == [Name |-> name, Email |-> email]

People ==
    { Person("u1", "e1"), Person("u2", "e2"), Person("u3", "e1"),
      Person("u0", "e0"), Person("u4", ""), Person("u5", "E1") }

PRCommit(author, committer) ==
    [AuthorName |-> author.Name, AuthorEmail |-> author.Email,
     CommitterName |-> committer.Name, CommitterEmail |-> committer.Email]

(* every author/committer pairing: the inputs of the extraction *)
AllCommits == { PRCommit(a, c) : a \in People, c \in People }

(* the commits a PR of the evaluation model may hold *)
PRCommits ==
    { PRCommit(Person("u1", "e1"), Person("u2", "e2")),
      PRCommit(Person("u2", "e2"), Person("u1", "e1")),
      PRCommit(Person("u3", "e1"), Person("u2", "e2")),
      PRCommit(Person("u1", "e1"), Person("u0", "e0")),
      PRCommit(Person("u4", ""), Person("u1", "e1")),
      PRCommit(Person("u0", "e0"), Person("u3", "e1")),
      PRCommit(Person("u2", "e2"), Person("u4", "")) }

SeqsUpTo(S, n) == UNION { [1..k -> S] : k \in 0..n }

----------------------------------------------------------------------------
(* Contributor extraction: robot_helper.go ListContributorNameAndEmail *)

(* mutant: a later commit overwrites the name kept for an email already seen *)
ListStep_LastName(st, commit) ==
    LET at(es, e) == CHOOSE k \in 1..Len(es) : es[k] = e
        a == IF ~SliceContains(st.authorEmails, commit.AuthorEmail)
             THEN [st EXCEPT
                     !.authorEmails = Append(@, commit.AuthorEmail),
                     !.authors = Append(@, commit.AuthorName)]
             ELSE [st EXCEPT
                     !.authors[at(st.authorEmails, commit.AuthorEmail)] =
                         commit.AuthorName]
    IN  IF ~SliceContains(a.committerEmails, commit.CommitterEmail)
        THEN [a EXCEPT
                !.committerEmails = Append(@, commit.CommitterEmail),
                !.committers = Append(@, commit.CommitterName)]
        ELSE [a EXCEPT
                !.committers[at(a.committerEmails, commit.CommitterEmail)] =
                    commit.CommitterName]

(* mutant: the committer is looked up among the author emails *)
ListStep_Crossed(st, commit) ==
    LET a == IF ~SliceContains(st.authorEmails, commit.AuthorEmail)
             THEN [st EXCEPT
                     !.authorEmails = Append(@, commit.AuthorEmail),
                     !.authors = Append(@, commit.AuthorName)]
             ELSE st
    IN  IF ~SliceContains(a.authorEmails, commit.CommitterEmail)
        THEN [a EXCEPT
                !.committerEmails = Append(@, commit.CommitterEmail),
                !.committers = Append(@, commit.CommitterName)]
        ELSE a

(* one iteration of the loop over commits[i]; the slices x[:xSize] are the
   sequences themselves *)
ListStep(st, commit) ==
    LET a == IF ~SliceContains(st.authorEmails, commit.AuthorEmail)
             THEN [st EXCEPT
                     !.authorEmails = Append(@, commit.AuthorEmail),
                     !.authors = Append(@, commit.AuthorName)]
             ELSE st
    IN  IF ~SliceContains(a.committerEmails, commit.CommitterEmail)
        THEN [a EXCEPT
                !.committerEmails = Append(@, commit.CommitterEmail),
                !.committers = Append(@, commit.CommitterName)]
        ELSE a

RECURSIVE ListLoop(_, _, _)
ListLoop(commits, i, st) ==
    IF i > Len(commits) THEN st
    ELSE ListLoop(commits, i + 1, ListStep(st, commits[i]))

(* returns [users, emails] *)
ListContributorNameAndEmail(commits, checkByCommitter) ==
    LET st == ListLoop(commits, 1,
                  [authors |-> <<>>, authorEmails |-> <<>>,
                   committers |-> <<>>, committerEmails |-> <<>>])
    IN  IF checkByCommitter
        THEN [users |-> st.committers, emails |-> st.committerEmails]
        ELSE [users |-> st.authors, emails |-> st.authorEmails]

----------------------------------------------------------------------------
(* Sign-state aggregation: robot_helper.go checkCLASignResult *)

(* mutant: the empty email is sent to the signature service *)
IsExempt_LiteOnly(email) == LitePRCommitterEmail = email

(* line 52: the identity is not sent to the signature service *)
IsExempt(email) == LitePRCommitterEmail = email \/ email = ""

(* mutant: the answer is compared without regard to case *)
Classify_FoldCase(signState) ==
    CASE signState \in {"yes", "YES"} -> "signed"
      [] signState \in {"no", "NO"} -> "unsigned"
      [] OTHER -> "unknown"

(* lines 59-66: the switch on signState *)
Classify(signState) ==
    CASE signState = CLASignStateYes -> "signed"
      [] signState = CLASignStateNo -> "unsigned"
      [] OTHER -> "unknown"

(* mutant: the unsigned list is looked at before the unknown list *)
DeriveResult_UnsignedFirst(emails, signedUsers, unsignedUsers, unknownUsers) ==
    IF Len(unsignedUsers) # 0
    THEN [allSigned |-> FALSE, trigger |-> FALSE,
          signResult |-> << <<>>, unsignedUsers, <<>> >>]
    ELSE IF Len(unknownUsers) # 0
    THEN [allSigned |-> FALSE, trigger |-> TRUE,
          signResult |-> << <<>>, <<>>, unknownUsers >>]
    ELSE [allSigned |-> Len(emails) # 0 /\ Len(signedUsers) = Len(emails),
          trigger |-> FALSE,
          signResult |-> << signedUsers, <<>>, <<>> >>]

(* mutant: the Fail payload names every checked user *)
DeriveResult_FailAll(emails, signedUsers, unsignedUsers, unknownUsers) ==
    IF Len(unknownUsers) # 0
    THEN [allSigned |-> FALSE, trigger |-> TRUE,
          signResult |-> << <<>>, <<>>, unknownUsers >>]
    ELSE IF Len(unsignedUsers) # 0
    THEN [allSigned |-> FALSE, trigger |-> FALSE,
          signResult |-> << <<>>, signedUsers \o unsignedUsers, <<>> >>]
    ELSE [allSigned |-> Len(emails) # 0 /\ Len(signedUsers) = Len(emails),
          trigger |-> FALSE,
          signResult |-> << signedUsers, <<>>, <<>> >>]

(* mutant: allSigned without the test for an empty identity list *)
DeriveResult_NoEmptyCheck(emails, signedUsers, unsignedUsers, unknownUsers) ==
    IF Len(unknownUsers) # 0
    THEN [allSigned |-> FALSE, trigger |-> TRUE,
          signResult |-> << <<>>, <<>>, unknownUsers >>]
    ELSE IF Len(unsignedUsers) # 0
    THEN [allSigned |-> FALSE, trigger |-> FALSE,
          signResult |-> << <<>>, unsignedUsers, <<>> >>]
    ELSE [allSigned |-> Len(signedUsers) = Len(emails),
          trigger |-> FALSE,
          signResult |-> << signedUsers, <<>>, <<>> >>]

(* mutant: an empty identity list is answered like an unknown identity *)
DeriveResult_EmptyTriggers(emails, signedUsers, unsignedUsers, unknownUsers) ==
    IF Len(unknownUsers) # 0 \/ Len(emails) = 0
    THEN [allSigned |-> FALSE, trigger |-> TRUE,
          signResult |-> << <<>>, <<>>, unknownUsers >>]
    ELSE IF Len(unsignedUsers) # 0
    THEN [allSigned |-> FALSE, trigger |-> FALSE,
          signResult |-> << <<>>, unsignedUsers, <<>> >>]
    ELSE [allSigned |-> Len(signedUsers) = Len(emails),
          trigger |-> FALSE,
          signResult |-> << signedUsers, <<>>, <<>> >>]

(* mutant: the three lists are returned as the loop left them *)
DeriveResult_AllLists(emails, signedUsers, unsignedUsers, unknownUsers) ==
    [allSigned |-> /\ Len(unknownUsers) = 0
                   /\ Len(unsignedUsers) = 0
                   /\ Len(emails) # 0
                   /\ Len(signedUsers) = Len(emails),
     trigger |-> Len(unknownUsers) # 0,
     signResult |-> << signedUsers, unsignedUsers, unknownUsers >>]

(* lines 69-82: [allSigned, signResult, trigger]; signResult[1..3] are Go's
   signResult[0..2]; trigger says that the retry comment is posted *)
DeriveResult(emails, signedUsers, unsignedUsers, unknownUsers) ==
    IF Len(unknownUsers) # 0
    THEN [allSigned |-> FALSE, trigger |-> TRUE,
          signResult |-> << <<>>, <<>>, unknownUsers >>]
    ELSE IF Len(unsignedUsers) # 0
    THEN [allSigned |-> FALSE, trigger |-> FALSE,
          signResult |-> << <<>>, unsignedUsers, <<>> >>]
    ELSE [allSigned |-> Len(emails) # 0 /\ Len(signedUsers) = Len(emails),
          trigger |-> FALSE,
          signResult |-> << signedUsers, <<>>, <<>> >>]

----------------------------------------------------------------------------
(* Outcome comments: robot_helper.go passCLASignature / waitCLASignature *)

UserMarks(names) ==
    [k \in 1..Len(names) |->
        ReplaceAll(UserMarkFormat, PlaceholderCommitter, <<names[k]>>)]

(* lines 118-123 *)
AllSignedComment(signedUsers) ==
    ReplaceAll(CommentAllSigned, PlaceholderCommitter,
               Join(UserMarks(signedUsers), ", "))

(* lines 143-148 *)
SomeNeedSignComment(unsignedUsers) ==
    Sprintf(CommentSomeNeedSign,
            << Join(UserMarks(unsignedUsers), ", "), <<SignURL>>, <<FAQURL>> >>)

(* mutant: only the guide marker is looked for *)
IsGuide_GuideOnly(body) == Contains(body, PlaceholderCLASignGuideTitle)

(* lines 162-163: the comment is a guidance comment *)
IsGuide(body) ==
    \/ Contains(body, PlaceholderCLASignGuideTitle)
    \/ Contains(body, PlaceholderCLASignPassTitle)

(* mutant: the bodies are not looked at, every comment is a match *)
NextGuide_Every(listing, j) == IF j <= Len(listing) THEN j ELSE 0

(* the first index k >= j of a guidance comment in the listing, 0 if none *)
NextGuide(listing, j) ==
    LET ks == { k \in j..Len(listing) : IsGuide(listing[k].Body) }
    IN  IF ks = {} THEN 0 ELSE CHOOSE k \in ks : \A m \in ks : k <= m

----------------------------------------------------------------------------
(* The platform client (iClient): effects of the calls on the PR *)

(* a call of evaluation p and what it returned: the success flag of a platform
   call, the sign state of a CheckCLASignature call *)
Call(p, op, arg, ret) == [p |-> p, op |-> op, arg |-> arg, ret |-> ret]

(* CreatePRComment: a successful call appends the comment *)
Created(cs, id, body, success) ==
    IF success THEN Append(cs, [ID |-> id, Body |-> body]) ELSE cs

(* AddPRLabels: adding a label the PR already holds changes nothing *)
Added(ls, names, success) ==
    IF success THEN ls \cup { names[k] : k \in 1..Len(names) } ELSE ls

(* RemovePRLabels: the names arrive escaped in the request path *)
Removed(ls, names, success) ==
    IF success THEN ls \ { PathUnescape(names[k]) : k \in 1..Len(names) }
    ELSE ls

(* DeletePRComment *)
Deleted(cs, id, success) ==
    IF success THEN SelectSeq(cs, LAMBDA c : c.ID # id) ELSE cs

----------------------------------------------------------------------------
(* State *)

Procs == {"ev1", "ev2"}

GuideOld == <<"### CLA Signature Guide", "old">>
PassOld == <<"### CLA Signature Pass", "old">>
Chat == <<"LGTM">>

(* the comment threads a PR may start with: none, without guidance, with one
   or several guidance comments of either marker *)
InitialBodies ==
    { <<>>, <<Chat>>, <<GuideOld>>, <<PassOld>>, <<GuideOld, Chat>>,
      <<Chat, PassOld, GuideOld>>, <<GuideOld, GuideOld>> }

InitialComments ==
    { [k \in 1..Len(bs) |-> [ID |-> k, Body |-> bs[k]]] : bs \in InitialBodies }

InitialLabels == { ls \cup {OtherLabel} : ls \in SUBSET {CLALabelYes, CLALabelNo} }

(* client.GenericEvent: the fields the handlers read; the text of a comment
   is a sequence of tokens: a word, a blank " " or a line break "\n" *)
GenericEvent(kind, repo, state, action, comment) ==
    [kind |-> kind, repo |-> repo, state |-> state, action |-> action,
     comment |-> comment]

NoEvent == GenericEvent("none", "", "", "", <<>>)

Idle ==
    [pc |-> "idle", commits |-> <<>>, prLabels |-> {},
     users |-> <<>>, emails |-> <<>>, i |-> 0,
     signedUsers |-> <<>>, unsignedUsers |-> <<>>, unknownUsers |-> <<>>,
     success |-> FALSE, allSigned |-> FALSE,
     signResult |-> << <<>>, <<>>, <<>> >>,
     comment |-> <<>>, listing |-> <<>>, j |-> 0, round |-> 0,
     evt |-> NoEvent]

InitPlatform ==
    /\ labels \in InitialLabels
    /\ comments \in InitialComments
    /\ nextId = Len(comments) + 1
    /\ CheckByCommitter \in BOOLEAN
    /\ calls = <<>>
    /\ pr0 = [labels |-> labels, comments |-> comments]

Init ==
    /\ InitPlatform
    /\ ev = [p \in Procs |-> Idle]

Platform == <<labels, comments, nextId>>

Fixed == <<CheckByCommitter, pr0>>

Log(p, op, arg, ret) == calls' = Append(calls, Call(p, op, arg, ret))

Set(p, local) == ev' = [ev EXCEPT ![p] = local]

(* bot.cli.CreatePRComment(org, repo, number, body); the result is dropped *)
CreatePRComment(p, body) ==
    \E success \in BOOLEAN :
       /\ comments' = Created(comments, nextId, body, success)
       /\ nextId' = IF success THEN nextId + 1 ELSE nextId
       /\ Log(p, "CreatePRComment", body, success)

----------------------------------------------------------------------------
(* checkIfAllSignedCLA, robot_helper.go lines 25-45 *)

(* mutant: an empty commit list is evaluated like any other *)
GetPullRequestCommits_NoEmptyCheck(p) ==
    /\ ev[p].pc = "idle"
    /\ \E success \in BOOLEAN, result \in SeqsUpTo(PRCommits, MaxCommits) :
         /\ success \/ result = <<>>
         /\ Set(p, IF ~success THEN [ev[p] EXCEPT !.pc = "fetchFailed"]
                   ELSE [ev[p] EXCEPT !.pc = "getLabels", !.commits = result])
         /\ Log(p, "GetPullRequestCommits", <<>>, success)
    /\ UNCHANGED <<Platform, Fixed>>

(* line 27: the commits of the PR are fetched *)
GetPullRequestCommits(p) ==
    /\ ev[p].pc = "idle"
    /\ \E success \in BOOLEAN, result \in SeqsUpTo(PRCommits, MaxCommits) :
         /\ success \/ result = <<>>
         /\ Set(p, IF ~success THEN [ev[p] EXCEPT !.pc = "fetchFailed"]
                   ELSE IF Len(result) = 0
                   THEN [ev[p] EXCEPT !.pc = "noCommits"]
                   ELSE [ev[p] EXCEPT !.pc = "getLabels", !.commits = result])
         /\ Log(p, "GetPullRequestCommits", <<>>, success)
    /\ UNCHANGED <<Platform, Fixed>>

(* mutant: the return of line 30 is missing *)
CommentFetchFailed_Continue(p) ==
    /\ ev[p].pc = "fetchFailed"
    /\ CreatePRComment(p, CommentCommandTrigger)
    /\ Set(p, [ev[p] EXCEPT !.pc = "getLabels"])
    /\ UNCHANGED <<labels, Fixed>>

(* lines 28-31 *)
CommentFetchFailed(p) ==
    /\ ev[p].pc = "fetchFailed"
    /\ CreatePRComment(p, CommentCommandTrigger)
    /\ Set(p, [ev[p] EXCEPT !.pc = "done"])
    /\ UNCHANGED <<labels, Fixed>>

(* mutant: a PR without commits is left without a word *)
CommentNoCommits_Silent(p) ==
    /\ ev[p].pc = "noCommits"
    /\ Set(p, [ev[p] EXCEPT !.pc = "done"])
    /\ UNCHANGED <<Platform, Fixed, calls>>

(* lines 33-36 *)
CommentNoCommits(p) ==
    /\ ev[p].pc = "noCommits"
    /\ CreatePRComment(p, CommentPRNoCommits)
    /\ Set(p, [ev[p] EXCEPT !.pc = "done"])
    /\ UNCHANGED <<labels, Fixed>>

(* line 38, then lines 39 and 49: the label snapshot is taken, its success
   flag is dropped, and checkCLASignResult starts by extracting the
   identities; the commits are not read again *)
GetPullRequestLabels(p) ==
    /\ ev[p].pc = "getLabels"
    /\ \E success \in BOOLEAN, result \in {labels, {}} :
         /\ success => result = labels
         /\ LET id == ListContributorNameAndEmail(ev[p].commits, CheckByCommitter)
            IN  Set(p, [ev[p] EXCEPT !.pc = "classify", !.prLabels = result,
                           !.commits = <<>>,
                           !.users = id.users, !.emails = id.emails, !.i = 1])
         /\ Log(p, "GetPullRequestLabels", <<>>, success)
    /\ UNCHANGED <<Platform, Fixed>>

----------------------------------------------------------------------------
(* checkCLASignResult, robot_helper.go lines 47-83 *)

(* lines 52-55: an exempt identity is unknown without a call *)
ClassifyExempt(p) ==
    /\ ev[p].pc = "classify"
    /\ ev[p].i <= Len(ev[p].emails)
    /\ IsExempt(ev[p].emails[ev[p].i])
    /\ Set(p, [ev[p] EXCEPT
                 !.unknownUsers = Append(@, ev[p].users[ev[p].i]),
                 !.i = @ + 1])
    /\ UNCHANGED <<Platform, Fixed, calls>>

(* line 57 *)
CheckURLFor(email) == <<CheckURL, "?email=", email>>

(* mutant: an answer other than yes or no is asked for once more *)
CheckCLASignature_Retry(p) ==
    /\ ev[p].pc = "classify"
    /\ ev[p].i <= Len(ev[p].emails)
    /\ ~IsExempt(ev[p].emails[ev[p].i])
    /\ \E signState \in SignStates, success \in BOOLEAN :
         LET user == ev[p].users[ev[p].i]
             class == Classify(signState)
             url == CheckURLFor(ev[p].emails[ev[p].i])
             asked == /\ calls # <<>>
                      /\ calls[Len(calls)].op = "CheckCLASignature"
                      /\ calls[Len(calls)].arg = url
         IN  /\ Set(p, IF class = "unknown" /\ ~asked
                       THEN [ev[p] EXCEPT !.success = success]
                       ELSE [ev[p] EXCEPT
                               !.success = success,
                               !.signedUsers =
                                   IF class = "signed" THEN Append(@, user)
                                   ELSE @,
                               !.unsignedUsers =
                                   IF class = "unsigned" THEN Append(@, user)
                                   ELSE @,
                               !.unknownUsers =
                                   IF class = "unknown" THEN Append(@, user)
                                   ELSE @,
                               !.i = @ + 1])
             /\ Log(p, "CheckCLASignature", url, signState)
    /\ UNCHANGED <<Platform, Fixed>>

(* lines 57-66: the service is asked; the switch reads the state string
   only; the success flag the code drops is kept in ev[p].success until
   the next answer or the return *)
CheckCLASignature(p) ==
    /\ ev[p].pc = "classify"
    /\ ev[p].i <= Len(ev[p].emails)
    /\ ~IsExempt(ev[p].emails[ev[p].i])
    /\ \E signState \in SignStates, success \in BOOLEAN :
         LET user == ev[p].users[ev[p].i]
             class == Classify(signState)
         IN  /\ Set(p, [ev[p] EXCEPT
                   !.success = success,
                   !.signedUsers =
                       IF class = "signed" THEN Append(@, user) ELSE @,
                   !.unsignedUsers =
                       IF class = "unsigned" THEN Append(@, user) ELSE @,
                   !.unknownUsers =
                       IF class = "unknown" THEN Append(@, user) ELSE @,
                   !.i = @ + 1])
             /\ Log(p, "CheckCLASignature", CheckURLFor(ev[p].emails[ev[p].i]),
                    signState)
    /\ UNCHANGED <<Platform, Fixed>>

Result(p) ==
    DeriveResult(ev[p].emails, ev[p].signedUsers, ev[p].unsignedUsers,
                 ev[p].unknownUsers)

(* mutant: the list is not looked at *)
WaitEntry_NoGuard(unsignedUsers) == "wait"

(* waitCLASignature lines 131-133: nothing is done for an empty list *)
WaitEntry(unsignedUsers) == IF Len(unsignedUsers) = 0 THEN "done" ELSE "wait"

(* mutant: waitCLASignature without its guard on an empty list *)
Returned_NoGuard(local, r) ==
    [local EXCEPT !.allSigned = r.allSigned, !.signResult = r.signResult,
                  !.success = FALSE,
                  !.pc = IF r.allSigned THEN "pass" ELSE "wait"]

(* mutant: a PR whose snapshot holds CLALabelYes is taken as signed *)
Returned_TrustLabel(local, r) ==
    [local EXCEPT !.allSigned = r.allSigned \/ CLALabelYes \in local.prLabels,
                  !.signResult = r.signResult,
                  !.success = FALSE,
                  !.pc = IF r.allSigned \/ CLALabelYes \in local.prLabels
                         THEN "pass"
                         ELSE WaitEntry(r.signResult[2])]

(* checkIfAllSignedCLA lines 40-44, and waitCLASignature lines 131-133: where
   the caller goes with what checkCLASignResult returned *)
Returned(local, r) ==
    [local EXCEPT !.allSigned = r.allSigned, !.signResult = r.signResult,
                  !.success = FALSE,
                  !.pc = IF r.allSigned THEN "pass"
                         ELSE WaitEntry(r.signResult[2])]

LoopDone(p) == ev[p].pc = "classify" /\ ev[p].i > Len(ev[p].emails)

(* mutant: the unknown list is returned without the retry comment *)
ReturnPending_NoComment(p) ==
    /\ LoopDone(p)
    /\ Result(p).trigger
    /\ Set(p, Returned(ev[p], Result(p)))
    /\ UNCHANGED <<Platform, Fixed, calls>>

(* lines 69-73: the retry comment is posted before the return *)
ReturnPending(p) ==
    /\ LoopDone(p)
    /\ Result(p).trigger
    /\ CreatePRComment(p, CommentCommandTrigger)
    /\ Set(p, Returned(ev[p], Result(p)))
    /\ UNCHANGED <<labels, Fixed>>

(* lines 75-82: no call is made *)
ReturnVerdict(p) ==
    /\ LoopDone(p)
    /\ ~Result(p).trigger
    /\ Set(p, Returned(ev[p], Result(p)))
    /\ UNCHANGED <<Platform, Fixed, calls>>

----------------------------------------------------------------------------
(* passCLASignature, robot_helper.go lines 108-128 *)

(* mutant: the label the Pass path is about to add is the one removed *)
PassRemovePRLabels_WrongLabel(p) ==
    /\ ev[p].pc = "pass"
    /\ CLALabelNo \in ev[p].prLabels
    /\ \E success \in BOOLEAN :
         /\ labels' = Removed(labels, <<QueryEscape(CLALabelYes)>>, success)
         /\ Set(p, [ev[p] EXCEPT
                      !.pc = IF success THEN "passAdd" ELSE "passRemoveFailed"])
         /\ Log(p, "RemovePRLabels", <<QueryEscape(CLALabelYes)>>, success)
    /\ UNCHANGED <<comments, nextId, Fixed>>

(* lines 110-111: the snapshot holds CLALabelNo, it is removed *)
PassRemovePRLabels(p) ==
    /\ ev[p].pc = "pass"
    /\ CLALabelNo \in ev[p].prLabels
    /\ \E success \in BOOLEAN :
         /\ labels' = Removed(labels, <<QueryEscape(CLALabelNo)>>, success)
         /\ Set(p, [ev[p] EXCEPT
                      !.pc = IF success THEN "passAdd" ELSE "passRemoveFailed"])
         /\ Log(p, "RemovePRLabels", <<QueryEscape(CLALabelNo)>>, success)
    /\ UNCHANGED <<comments, nextId, Fixed>>

(* mutant: a failed removal ends the Pass path *)
PassRemoveFailedComment_Abort(p) ==
    /\ ev[p].pc = "passRemoveFailed"
    /\ CreatePRComment(p, CommentUpdateLabelFailed)
    /\ Set(p, [ev[p] EXCEPT !.pc = "done"])
    /\ UNCHANGED <<labels, Fixed>>

(* line 112 *)
PassRemoveFailedComment(p) ==
    /\ ev[p].pc = "passRemoveFailed"
    /\ CreatePRComment(p, CommentUpdateLabelFailed)
    /\ Set(p, [ev[p] EXCEPT !.pc = "passAdd"])
    /\ UNCHANGED <<labels, Fixed>>

(* mutant: the label is added only when the snapshot does not hold it *)
PassAddPRLabels_SkipIfPresent(p) ==
    /\ \/ ev[p].pc = "passAdd"
       \/ ev[p].pc = "pass" /\ CLALabelNo \notin ev[p].prLabels
    /\ IF CLALabelYes \in ev[p].prLabels
       THEN /\ Set(p, [ev[p] EXCEPT !.pc = "done"])
            /\ UNCHANGED <<Platform, Fixed, calls>>
       ELSE /\ \E success \in BOOLEAN :
                 /\ labels' = Added(labels, <<CLALabelYes>>, success)
                 /\ Set(p, IF success
                           THEN [ev[p] EXCEPT
                                   !.pc = "cleanup",
                                   !.comment =
                                       AllSignedComment(ev[p].signResult[1])]
                           ELSE [ev[p] EXCEPT
                                   !.pc = "outcome",
                                   !.comment = CommentUpdateLabelFailed])
                 /\ Log(p, "AddPRLabels", <<CLALabelYes>>, success)
            /\ UNCHANGED <<comments, nextId, Fixed>>

(* lines 116-123 *)
PassAddPRLabels(p) ==
    /\ \/ ev[p].pc = "passAdd"
       \/ ev[p].pc = "pass" /\ CLALabelNo \notin ev[p].prLabels
    /\ \E success \in BOOLEAN :
         /\ labels' = Added(labels, <<CLALabelYes>>, success)
         /\ Set(p, IF success
                   THEN [ev[p] EXCEPT
                           !.pc = "cleanup",
                           !.comment = AllSignedComment(ev[p].signResult[1])]
                   ELSE [ev[p] EXCEPT
                           !.pc = "outcome",
                           !.comment = CommentUpdateLabelFailed])
         /\ Log(p, "AddPRLabels", <<CLALabelYes>>, success)
    /\ UNCHANGED <<comments, nextId, Fixed>>

----------------------------------------------------------------------------
(* waitCLASignature, robot_helper.go lines 130-153 *)

(* mutant: the label the Fail path is about to add is the one removed *)
WaitRemovePRLabels_WrongLabel(p) ==
    /\ ev[p].pc = "wait"
    /\ CLALabelYes \in ev[p].prLabels
    /\ \E success \in BOOLEAN :
         /\ labels' = Removed(labels, <<QueryEscape(CLALabelNo)>>, success)
         /\ Set(p, [ev[p] EXCEPT
                      !.pc = IF success THEN "waitAdd" ELSE "waitRemoveFailed"])
         /\ Log(p, "RemovePRLabels", <<QueryEscape(CLALabelNo)>>, success)
    /\ UNCHANGED <<comments, nextId, Fixed>>

(* mutant: the removal does not look at the snapshot *)
WaitRemovePRLabels_NoSnapshotCheck(p) ==
    /\ ev[p].pc = "wait"
    /\ \E success \in BOOLEAN :
         /\ labels' = Removed(labels, <<QueryEscape(CLALabelYes)>>, success)
         /\ Set(p, [ev[p] EXCEPT
                      !.pc = IF success THEN "waitAdd" ELSE "waitRemoveFailed"])
         /\ Log(p, "RemovePRLabels", <<QueryEscape(CLALabelYes)>>, success)
    /\ UNCHANGED <<comments, nextId, Fixed>>

(* lines 135-136: the snapshot holds CLALabelYes, it is removed *)
WaitRemovePRLabels(p) ==
    /\ ev[p].pc = "wait"
    /\ CLALabelYes \in ev[p].prLabels
    /\ \E success \in BOOLEAN :
         /\ labels' = Removed(labels, <<QueryEscape(CLALabelYes)>>, success)
         /\ Set(p, [ev[p] EXCEPT
                      !.pc = IF success THEN "waitAdd" ELSE "waitRemoveFailed"])
         /\ Log(p, "RemovePRLabels", <<QueryEscape(CLALabelYes)>>, success)
    /\ UNCHANGED <<comments, nextId, Fixed>>

(* mutant: a failed removal ends the Fail path *)
WaitRemoveFailedComment_Abort(p) ==
    /\ ev[p].pc = "waitRemoveFailed"
    /\ CreatePRComment(p, CommentUpdateLabelFailed)
    /\ Set(p, [ev[p] EXCEPT !.pc = "done"])
    /\ UNCHANGED <<labels, Fixed>>

(* line 137 *)
WaitRemoveFailedComment(p) ==
    /\ ev[p].pc = "waitRemoveFailed"
    /\ CreatePRComment(p, CommentUpdateLabelFailed)
    /\ Set(p, [ev[p] EXCEPT !.pc = "waitAdd"])
    /\ UNCHANGED <<labels, Fixed>>

(* mutant: the label is added only when the snapshot does not hold it, as
   robot.go line 236 did *)
WaitAddPRLabels_SkipIfPresent(p) ==
    /\ \/ ev[p].pc = "waitAdd"
       \/ ev[p].pc = "wait" /\ CLALabelYes \notin ev[p].prLabels
    /\ IF CLALabelNo \in ev[p].prLabels
       THEN /\ Set(p, [ev[p] EXCEPT !.pc = "done"])
            /\ UNCHANGED <<Platform, Fixed, calls>>
       ELSE /\ \E success \in BOOLEAN :
                 /\ labels' = Added(labels, <<CLALabelNo>>, success)
                 /\ Set(p, IF success
                           THEN [ev[p] EXCEPT
                                   !.pc = "cleanup",
                                   !.comment =
                                       SomeNeedSignComment(ev[p].signResult[2])]
                           ELSE [ev[p] EXCEPT
                                   !.pc = "outcome",
                                   !.comment = CommentUpdateLabelFailed])
                 /\ Log(p, "AddPRLabels", <<CLALabelNo>>, success)
            /\ UNCHANGED <<comments, nextId, Fixed>>

(* mutant: the guidance comments are cleaned up whatever AddPRLabels says *)
WaitAddPRLabels_CleanupAlways(p) ==
    /\ \/ ev[p].pc = "waitAdd"
       \/ ev[p].pc = "wait" /\ CLALabelYes \notin ev[p].prLabels
    /\ \E success \in BOOLEAN :
         /\ labels' = Added(labels, <<CLALabelNo>>, success)
         /\ Set(p, IF success
                   THEN [ev[p] EXCEPT
                           !.pc = "cleanup",
                           !.comment = SomeNeedSignComment(ev[p].signResult[2])]
                   ELSE [ev[p] EXCEPT
                           !.pc = "cleanup",
                           !.comment = CommentUpdateLabelFailed])
         /\ Log(p, "AddPRLabels", <<CLALabelNo>>, success)
    /\ UNCHANGED <<comments, nextId, Fixed>>

(* lines 141-148 *)
WaitAddPRLabels(p) ==
    /\ \/ ev[p].pc = "waitAdd"
       \/ ev[p].pc = "wait" /\ CLALabelYes \notin ev[p].prLabels
    /\ \E success \in BOOLEAN :
         /\ labels' = Added(labels, <<CLALabelNo>>, success)
         /\ Set(p, IF success
                   THEN [ev[p] EXCEPT
                           !.pc = "cleanup",
                           !.comment = SomeNeedSignComment(ev[p].signResult[2])]
                   ELSE [ev[p] EXCEPT
                           !.pc = "outcome",
                           !.comment = CommentUpdateLabelFailed])
         /\ Log(p, "AddPRLabels", <<CLALabelNo>>, success)
    /\ UNCHANGED <<comments, nextId, Fixed>>

----------------------------------------------------------------------------
(* removeCLASignGuideComment, robot_helper.go lines 155-167 *)

(* mutant: the loop stops after its first deletion *)
Cleanup_Break(local, listing, j) ==
    IF j > 1 \/ NextGuide(listing, j) = 0
    THEN [local EXCEPT !.pc = "outcome", !.listing = <<>>, !.j = 0]
    ELSE [local EXCEPT !.pc = "delete", !.listing = listing,
                       !.j = NextGuide(listing, j)]

(* mutant: the loop misses the comment it starts at *)
Cleanup_SkipFirst(local, listing, j) ==
    IF NextGuide(listing, j + 1) = 0
    THEN [local EXCEPT !.pc = "outcome", !.listing = <<>>, !.j = 0]
    ELSE [local EXCEPT !.pc = "delete", !.listing = listing,
                       !.j = NextGuide(listing, j + 1)]

(* where the loop over the listing stands: at the next guidance comment, or
   back in the caller when there is none left *)
Cleanup(local, listing, j) ==
    IF NextGuide(listing, j) = 0
    THEN [local EXCEPT !.pc = "outcome", !.listing = <<>>, !.j = 0]
    ELSE [local EXCEPT !.pc = "delete", !.listing = listing,
                       !.j = NextGuide(listing, j)]

(* mutant: a failed listing ends the reconciliation, not just the cleanup *)
ListPullRequestComments_AbortOnFail(p) ==
    /\ ev[p].pc = "cleanup"
    /\ \E success \in BOOLEAN :
         /\ Set(p, IF success THEN Cleanup(ev[p], comments, 1)
                   ELSE [ev[p] EXCEPT !.pc = "done"])
         /\ Log(p, "ListPullRequestComments", <<>>, success)
    /\ UNCHANGED <<Platform, Fixed>>

(* lines 156-159 *)
ListPullRequestComments(p) ==
    /\ ev[p].pc = "cleanup"
    /\ \E success \in BOOLEAN :
         /\ Set(p, IF success THEN Cleanup(ev[p], comments, 1)
                   ELSE [ev[p] EXCEPT !.pc = "outcome"])
         /\ Log(p, "ListPullRequestComments", <<>>, success)
    /\ UNCHANGED <<Platform, Fixed>>

(* mutant: the loop is left at the first deletion that fails *)
DeletePRComment_StopOnFailure(p) ==
    /\ ev[p].pc = "delete"
    /\ \E success \in BOOLEAN :
         /\ comments' = Deleted(comments, ev[p].listing[ev[p].j].ID, success)
         /\ Log(p, "DeletePRComment", <<ev[p].listing[ev[p].j].ID>>, success)
         /\ Set(p, IF success THEN Cleanup(ev[p], ev[p].listing, ev[p].j + 1)
                   ELSE [ev[p] EXCEPT !.pc = "outcome", !.listing = <<>>,
                                      !.j = 0])
    /\ UNCHANGED <<labels, nextId, Fixed>>

(* lines 161-166: the result of the deletion is dropped *)
DeletePRComment(p) ==
    /\ ev[p].pc = "delete"
    /\ \E success \in BOOLEAN :
         /\ comments' = Deleted(comments, ev[p].listing[ev[p].j].ID, success)
         /\ Log(p, "DeletePRComment", <<ev[p].listing[ev[p].j].ID>>, success)
    /\ Set(p, Cleanup(ev[p], ev[p].listing, ev[p].j + 1))
    /\ UNCHANGED <<labels, nextId, Fixed>>

(* mutant: the guidance comments are looked for once more after the comment
   is posted, and the comment just posted is among them *)
CreateOutcomeComment_ThenCleanup(p) ==
    /\ ev[p].pc = "outcome"
    /\ \E success \in BOOLEAN :
         LET posted == Created(comments, nextId, ev[p].comment, success)
             guides == SelectSeq(posted, LAMBDA c : IsGuide(c.Body))
         IN  /\ comments' = SelectSeq(posted, LAMBDA c : ~IsGuide(c.Body))
             /\ nextId' = IF success THEN nextId + 1 ELSE nextId
             /\ calls' = calls
                    \o <<Call(p, "CreatePRComment", ev[p].comment, success),
                         Call(p, "ListPullRequestComments", <<>>, TRUE)>>
                    \o [k \in 1..Len(guides) |->
                          Call(p, "DeletePRComment", <<guides[k].ID>>, TRUE)]
    /\ Set(p, [ev[p] EXCEPT !.pc = "done"])
    /\ UNCHANGED <<labels, Fixed>>

(* lines 126 and 151: the outcome comment, last call of the evaluation *)
CreateOutcomeComment(p) ==
    /\ ev[p].pc = "outcome"
    /\ CreatePRComment(p, ev[p].comment)
    /\ Set(p, [ev[p] EXCEPT !.pc = "done"])
    /\ UNCHANGED <<labels, Fixed>>

----------------------------------------------------------------------------
(* One evaluation at a time *)

Step(p) ==
    \/ GetPullRequestCommits(p)
    \/ CommentFetchFailed(p)
    \/ CommentNoCommits(p)
    \/ GetPullRequestLabels(p)
    \/ ClassifyExempt(p)
    \/ CheckCLASignature(p)
    \/ ReturnPending(p)
    \/ ReturnVerdict(p)
    \/ PassRemovePRLabels(p)
    \/ PassRemoveFailedComment(p)
    \/ PassAddPRLabels(p)
    \/ WaitRemovePRLabels(p)
    \/ WaitRemoveFailedComment(p)
    \/ WaitAddPRLabels(p)
    \/ ListPullRequestComments(p)
    \/ DeletePRComment(p)
    \/ CreateOutcomeComment(p)

Next == Step("ev1")

Spec == Init /\ [][Next]_vars

----------------------------------------------------------------------------
(* checkCLASignResult called on its own, as TestCheckCLASignResult calls it:
   any commit list, the empty one included *)

(* line 49 *)
EnterCheckCLASignResult(p) ==
    /\ ev[p].pc = "call"
    /\ LET id == ListContributorNameAndEmail(ev[p].commits, CheckByCommitter)
       IN  Set(p, [ev[p] EXCEPT !.pc = "classify", !.commits = <<>>,
                      !.users = id.users, !.emails = id.emails, !.i = 1])
    /\ UNCHANGED <<Platform, Fixed, calls>>

InitCheck ==
    /\ labels = {OtherLabel}
    /\ comments = <<>>
    /\ nextId = 1
    /\ CheckByCommitter \in BOOLEAN
    /\ calls = <<>>
    /\ pr0 = [labels |-> labels, comments |-> comments]
    /\ \E cs \in SeqsUpTo(PRCommits, MaxCommits) :
         ev = [p \in Procs |->
                 IF p = "ev1" THEN [Idle EXCEPT !.pc = "call", !.commits = cs]
                 ELSE Idle]

NextCheck ==
    \/ EnterCheckCLASignResult("ev1")
    \/ ClassifyExempt("ev1")
    \/ CheckCLASignature("ev1")
    \/ ReturnPending("ev1")
    \/ ReturnVerdict("ev1")

SpecCheck == InitCheck /\ [][NextCheck]_vars

----------------------------------------------------------------------------
(* ListContributorNameAndEmail called on its own, as
   TestListContributorNameAndEmail calls it *)

ExtractIdentities(p) ==
    /\ ev[p].pc = "list"
    /\ LET id == ListContributorNameAndEmail(ev[p].commits, CheckByCommitter)
       IN  Set(p, [ev[p] EXCEPT !.pc = "listed",
                      !.users = id.users, !.emails = id.emails])
    /\ UNCHANGED <<Platform, Fixed, calls>>

InitList ==
    /\ labels = {OtherLabel}
    /\ comments = <<>>
    /\ nextId = 1
    /\ CheckByCommitter \in BOOLEAN
    /\ calls = <<>>
    /\ pr0 = [labels |-> labels, comments |-> comments]
    /\ \E cs \in SeqsUpTo(AllCommits, MaxCommits) :
         ev = [p \in Procs |->
                 IF p = "ev1" THEN [Idle EXCEPT !.pc = "list", !.commits = cs]
                 ELSE Idle]

NextList == ExtractIdentities("ev1")

SpecList == InitList /\ [][NextList]_vars

----------------------------------------------------------------------------
(* passCLASignature and waitCLASignature called on their own, one call after
   the other, as TestPassCLASignature and TestWaitCLASignature call them and
   as successive evaluations of one PR do *)

(* the name lists the reconciliation is called with *)
Payloads == { <<>>, <<"u1">>, <<"u2", "u1">> }

(* checkIfAllSignedCLA lines 38-44 with the verdict given: the label
   snapshot is taken (empty when the fetch fails) and one of the two
   functions is called; the log of the evaluation starts again *)
InvokeWith(p, allSigned, names, prLabels) ==
    /\ ev[p].pc \in {"ready", "done"}
    /\ Set(p, [Idle EXCEPT
                 !.round = ev[p].round + 1,
                 !.prLabels = prLabels,
                 !.allSigned = allSigned,
                 !.signResult = IF allSigned THEN << names, <<>>, <<>> >>
                                ELSE << <<>>, names, <<>> >>,
                 !.pc = IF allSigned THEN "pass" ELSE WaitEntry(names)])
    /\ calls' = SelectSeq(calls, LAMBDA c : c.p # p)
    /\ UNCHANGED <<Platform, CheckByCommitter>>

Invoke(p) ==
    /\ \E allSigned \in BOOLEAN, names \in Payloads, prLabels \in {labels, {}} :
         InvokeWith(p, allSigned, names, prLabels)
    /\ pr0' = [labels |-> labels, comments |-> comments]

(* the steps of the two functions and of the cleanup they share *)
Reconcile(p) ==
    \/ PassRemovePRLabels(p)
    \/ PassRemoveFailedComment(p)
    \/ PassAddPRLabels(p)
    \/ WaitRemovePRLabels(p)
    \/ WaitRemoveFailedComment(p)
    \/ WaitAddPRLabels(p)
    \/ ListPullRequestComments(p)
    \/ DeletePRComment(p)
    \/ CreateOutcomeComment(p)

InitReconcile ==
    /\ labels \in InitialLabels
    /\ comments \in InitialComments
    /\ nextId = Len(comments) + 1
    /\ CheckByCommitter = FALSE
    /\ calls = <<>>
    /\ pr0 = [labels |-> labels, comments |-> comments]
    /\ ev = [p \in Procs |-> [Idle EXCEPT !.pc = "ready"]]

NextReconcile ==
    \/ ev["ev1"].round < MaxRounds /\ Invoke("ev1")
    \/ Reconcile("ev1")

SpecReconcile == InitReconcile /\ [][NextReconcile]_vars

----------------------------------------------------------------------------
(* Two evaluations of one PR at the same time: each has its verdict for the
   one contributor, has fetched the labels, and makes the calls of its
   reconciliation interleaved with the other's *)

InvokeConcurrent(p) ==
    /\ ev[p].round = 0
    /\ \E allSigned \in BOOLEAN : InvokeWith(p, allSigned, <<"u1">>, labels)
    /\ pr0' = pr0

InitConcurrent ==
    /\ labels \in InitialLabels
    /\ comments \in { <<>>, <<[ID |-> 1, Body |-> GuideOld]>> }
    /\ nextId = Len(comments) + 1
    /\ CheckByCommitter = FALSE
    /\ calls = <<>>
    /\ pr0 = [labels |-> labels, comments |-> comments]
    /\ ev = [p \in Procs |-> [Idle EXCEPT !.pc = "ready"]]

NextConcurrent ==
    \E p \in Procs :
        \/ InvokeConcurrent(p)
        \/ Reconcile(p)

SpecConcurrent == InitConcurrent /\ [][NextConcurrent]_vars

----------------------------------------------------------------------------
(* The event handlers, robot.go lines 67-103 and 250-275 *)

(* the repositories some item of ConfigItems applies to *)
ConfiguredRepos == {"org/repo"}

(* mutant: the first item is returned without asking its filter *)
getRepoConfig_First(repo) == TRUE

(* config.go lines 79-92: whether a repoConfig is found for the repository *)
getRepoConfig(repo) == repo \in ConfiguredRepos

(* the platform's two predicates on a PR event *)
CheckIfPRCreateEvent(evt) == evt.state = "opened" /\ evt.action = "open"

CheckIfPRSourceCodeUpdateEvent(evt) ==
    evt.state = "opened" /\ evt.action = "update"

(* robot.go lines 69 and 71: the literal between ^ and $ *)
regexpCheckCLAComment == "/check-cla"

regexpCancelCLAComment == "/cla cancel"

(* flag i: letters match in either case *)
ToLower(token) ==
    CASE token = "/CHECK-CLA" -> "/check-cla"
      [] token = "/CLA Cancel" -> "/cla cancel"
      [] OTHER -> token

(* flag m: ^ and $ match at the ends of each line of the text *)
RECURSIVE Lines(_)
Lines(text) ==
    IF \A k \in 1..Len(text) : text[k] # "\n" THEN {text}
    ELSE LET k == CHOOSE n \in 1..Len(text) :
                    /\ text[n] = "\n"
                    /\ \A m \in 1..(n - 1) : text[m] # "\n"
         IN  {SubSeq(text, 1, k - 1)} \cup Lines(SubSeq(text, k + 1, Len(text)))

(* regexp.MatchString for (?mi)^literal$ *)
MatchString(literal, text) ==
    \E line \in Lines(text) :
        /\ Len(line) = 1
        /\ ToLower(line[1]) = literal

(* mutant: every PR event of a configured repository is evaluated *)
HandlePullRequestEvent_NoEventCheck(p) ==
    /\ ev[p].pc = "prEvent"
    /\ Set(p, [ev[p] EXCEPT
                 !.pc = IF ~getRepoConfig(ev[p].evt.repo) THEN "done"
                        ELSE "idle"])
    /\ UNCHANGED <<Platform, Fixed, calls>>

(* robot.go lines 88-103 *)
HandlePullRequestEvent(p) ==
    /\ ev[p].pc = "prEvent"
    /\ Set(p, [ev[p] EXCEPT
                 !.pc = IF ~getRepoConfig(ev[p].evt.repo) THEN "done"
                        ELSE IF ~(\/ CheckIfPRCreateEvent(ev[p].evt)
                                  \/ CheckIfPRSourceCodeUpdateEvent(ev[p].evt))
                        THEN "done"
                        ELSE "idle"])
    /\ UNCHANGED <<Platform, Fixed, calls>>

(* mutant: the check command is looked for before the cancel command *)
HandlePullRequestCommentEvent_CheckFirst(p) ==
    /\ ev[p].pc = "commentEvent"
    /\ Set(p, [ev[p] EXCEPT
                 !.pc = IF ~getRepoConfig(ev[p].evt.repo) THEN "done"
                        ELSE IF MatchString(regexpCheckCLAComment,
                                            ev[p].evt.comment)
                        THEN "idle"
                        ELSE IF MatchString(regexpCancelCLAComment,
                                            ev[p].evt.comment)
                        THEN "cancel"
                        ELSE "done"])
    /\ UNCHANGED <<Platform, Fixed, calls>>

(* robot.go lines 250-275, up to the first call *)
HandlePullRequestCommentEvent(p) ==
    /\ ev[p].pc = "commentEvent"
    /\ Set(p, [ev[p] EXCEPT
                 !.pc = IF ~getRepoConfig(ev[p].evt.repo) THEN "done"
                        ELSE IF MatchString(regexpCancelCLAComment,
                                            ev[p].evt.comment)
                        THEN "cancel"
                        ELSE IF ~MatchString(regexpCheckCLAComment,
                                             ev[p].evt.comment)
                        THEN "done"
                        ELSE "idle"])
    /\ UNCHANGED <<Platform, Fixed, calls>>

(* robot.go lines 262-263: the labels are fetched, the flag is dropped *)
CancelGetPullRequestLabels(p) ==
    /\ ev[p].pc = "cancel"
    /\ \E success \in BOOLEAN, result \in {labels, {}} :
         /\ success => result = labels
         /\ Set(p, [ev[p] EXCEPT
                      !.prLabels = result,
                      !.pc = IF CLALabelYes \in result THEN "cancelRemove"
                             ELSE "done"])
         /\ Log(p, "GetPullRequestLabels", <<>>, success)
    /\ UNCHANGED <<Platform, Fixed>>

(* robot.go line 264: the result of the removal is dropped *)
CancelRemovePRLabels(p) ==
    /\ ev[p].pc = "cancelRemove"
    /\ \E success \in BOOLEAN :
         /\ labels' = Removed(labels, <<QueryEscape(CLALabelNo)>>, success)
         /\ Log(p, "RemovePRLabels", <<QueryEscape(CLALabelNo)>>, success)
    /\ Set(p, [ev[p] EXCEPT !.pc = "done"])
    /\ UNCHANGED <<comments, nextId, Fixed>>

----------------------------------------------------------------------------
(* The evaluation the handlers of robot.go call: checkIfAllSignedCLA and the
   functions under it as robot.go itself has them, lines 105-248.  The
   extraction of the identities (lines 166-187) and the tests of lines 133
   and 140-147 read as in robot_helper.go and are the operators above. *)

(* robot.go lines 72-85: the texts are package variables holding "" *)
userMarkFormat == <<>>

placeholderCommitter == ""

commentCommandTrigger == <<>>

commentPRNoCommits == <<>>

commentAllSigned == <<>>

commentSomeNeedSign == <<>>

commentUpdateLabelFailed == <<>>

placeholderCLASignGuideTitle == ""

(* lines 108-117 *)
RobotGetPullRequestCommits(p) ==
    /\ ev[p].pc = "idle"
    /\ \E success \in BOOLEAN, result \in SeqsUpTo(PRCommits, MaxCommits) :
         /\ success \/ result = <<>>
         /\ Set(p, IF ~success THEN [ev[p] EXCEPT !.pc = "fetchFailed"]
                   ELSE IF Len(result) = 0
                   THEN [ev[p] EXCEPT !.pc = "noCommits"]
                   ELSE [ev[p] EXCEPT !.pc = "getLabels", !.commits = result])
         /\ Log(p, "GetPullRequestCommits", <<>>, success)
    /\ UNCHANGED <<Platform, Fixed>>

(* lines 109-112 *)
RobotCommentFetchFailed(p) ==
    /\ ev[p].pc = "fetchFailed"
    /\ CreatePRComment(p, commentCommandTrigger)
    /\ Set(p, [ev[p] EXCEPT !.pc = "done"])
    /\ UNCHANGED <<labels, Fixed>>

(* lines 114-117 *)
RobotCommentNoCommits(p) ==
    /\ ev[p].pc = "noCommits"
    /\ CreatePRComment(p, commentPRNoCommits)
    /\ Set(p, [ev[p] EXCEPT !.pc = "done"])
    /\ UNCHANGED <<labels, Fixed>>

(* line 119, then lines 120 and 130 *)
RobotGetPullRequestLabels(p) ==
    /\ ev[p].pc = "getLabels"
    /\ \E success \in BOOLEAN, result \in {labels, {}} :
         /\ success => result = labels
         /\ LET id == ListContributorNameAndEmail(ev[p].commits, CheckByCommitter)
            IN  Set(p, [ev[p] EXCEPT !.pc = "classify", !.prLabels = result,
                           !.commits = <<>>,
                           !.users = id.users, !.emails = id.emails, !.i = 1])
         /\ Log(p, "GetPullRequestLabels", <<>>, success)
    /\ UNCHANGED <<Platform, Fixed>>

(* lines 133-136 *)
RobotClassifyExempt(p) ==
    /\ ev[p].pc = "classify"
    /\ ev[p].i <= Len(ev[p].emails)
    /\ IsExempt(ev[p].emails[ev[p].i])
    /\ Set(p, [ev[p] EXCEPT
                 !.unknownUsers = Append(@, ev[p].users[ev[p].i]),
                 !.i = @ + 1])
    /\ UNCHANGED <<Platform, Fixed, calls>>

(* lines 138-147 *)
RobotCheckCLASignature(p) ==
    /\ ev[p].pc = "classify"
    /\ ev[p].i <= Len(ev[p].emails)
    /\ ~IsExempt(ev[p].emails[ev[p].i])
    /\ \E signState \in SignStates, success \in BOOLEAN :
         LET user == ev[p].users[ev[p].i]
             class == Classify(signState)
         IN  /\ Set(p, [ev[p] EXCEPT
                   !.success = success,
                   !.signedUsers =
                       IF class = "signed" THEN Append(@, user) ELSE @,
                   !.unsignedUsers =
                       IF class = "unsigned" THEN Append(@, user) ELSE @,
                   !.unknownUsers =
                       IF class = "unknown" THEN Append(@, user) ELSE @,
                   !.i = @ + 1])
             /\ Log(p, "CheckCLASignature", CheckURLFor(ev[p].emails[ev[p].i]),
                    signState)
    /\ UNCHANGED <<Platform, Fixed>>

(* lines 150-163: allSigned is not guarded against an empty identity list *)
RobotDeriveResult(emails, signedUsers, unsignedUsers, unknownUsers) ==
    IF Len(unknownUsers) # 0
    THEN [allSigned |-> FALSE, trigger |-> TRUE,
          signResult |-> << <<>>, <<>>, unknownUsers >>]
    ELSE IF Len(unsignedUsers) # 0
    THEN [allSigned |-> FALSE, trigger |-> FALSE,
          signResult |-> << <<>>, unsignedUsers, <<>> >>]
    ELSE [allSigned |-> Len(signedUsers) = Len(emails),
          trigger |-> FALSE,
          signResult |-> << signedUsers, <<>>, <<>> >>]

RobotResult(p) ==
    RobotDeriveResult(ev[p].emails, ev[p].signedUsers, ev[p].unsignedUsers,
                      ev[p].unknownUsers)

(* lines 121-125, and 226-228: waitCLASignature does nothing for an empty
   list *)
RobotReturned(local, r) ==
    [local EXCEPT !.allSigned = r.allSigned, !.signResult = r.signResult,
                  !.success = FALSE,
                  !.pc = IF r.allSigned THEN "pass"
                         ELSE IF Len(r.signResult[2]) = 0 THEN "done"
                         ELSE "wait"]

(* lines 150-154 *)
RobotReturnPending(p) ==
    /\ LoopDone(p)
    /\ RobotResult(p).trigger
    /\ CreatePRComment(p, commentCommandTrigger)
    /\ Set(p, RobotReturned(ev[p], RobotResult(p)))
    /\ UNCHANGED <<labels, Fixed>>

(* lines 156-163 *)
RobotReturnVerdict(p) ==
    /\ LoopDone(p)
    /\ ~RobotResult(p).trigger
    /\ Set(p, RobotReturned(ev[p], RobotResult(p)))
    /\ UNCHANGED <<Platform, Fixed, calls>>

(* lines 205-206 *)
RobotPassRemovePRLabels(p) ==
    /\ ev[p].pc = "pass"
    /\ CLALabelNo \in ev[p].prLabels
    /\ \E success \in BOOLEAN :
         /\ labels' = Removed(labels, <<QueryEscape(CLALabelNo)>>, success)
         /\ Set(p, [ev[p] EXCEPT
                      !.pc = IF success THEN "passAdd" ELSE "passRemoveFailed"])
         /\ Log(p, "RemovePRLabels", <<QueryEscape(CLALabelNo)>>, success)
    /\ UNCHANGED <<comments, nextId, Fixed>>

(* line 207 *)
RobotPassRemoveFailedComment(p) ==
    /\ ev[p].pc = "passRemoveFailed"
    /\ CreatePRComment(p, commentUpdateLabelFailed)
    /\ Set(p, [ev[p] EXCEPT !.pc = "passAdd"])
    /\ UNCHANGED <<labels, Fixed>>

(* lines 214-218 *)
RobotAllSignedComment(signedUsers) ==
    ReplaceAll(commentAllSigned, placeholderCommitter,
        Join([k \in 1..Len(signedUsers) |->
                 ReplaceAll(userMarkFormat, placeholderCommitter,
                            <<signedUsers[k]>>)], ", "))

(* lines 211-218: nothing more is done when the snapshot holds CLALabelYes *)
RobotPassAddPRLabels(p) ==
    /\ \/ ev[p].pc = "passAdd"
       \/ ev[p].pc = "pass" /\ CLALabelNo \notin ev[p].prLabels
    /\ IF CLALabelYes \in ev[p].prLabels
       THEN /\ Set(p, [ev[p] EXCEPT !.pc = "done"])
            /\ UNCHANGED <<Platform, Fixed, calls>>
       ELSE /\ \E success \in BOOLEAN :
                 /\ labels' = Added(labels, <<CLALabelYes>>, success)
                 /\ Set(p, IF success
                           THEN [ev[p] EXCEPT
                                   !.pc = "cleanup",
                                   !.comment =
                                     RobotAllSignedComment(ev[p].signResult[1])]
                           ELSE [ev[p] EXCEPT
                                   !.pc = "outcome",
                                   !.comment = commentUpdateLabelFailed])
                 /\ Log(p, "AddPRLabels", <<CLALabelYes>>, success)
            /\ UNCHANGED <<comments, nextId, Fixed>>

(* lines 230-231 *)
RobotWaitRemovePRLabels(p) ==
    /\ ev[p].pc = "wait"
    /\ CLALabelYes \in ev[p].prLabels
    /\ \E success \in BOOLEAN :
         /\ labels' = Removed(labels, <<QueryEscape(CLALabelYes)>>, success)
         /\ Set(p, [ev[p] EXCEPT
                      !.pc = IF success THEN "waitAdd" ELSE "waitRemoveFailed"])
         /\ Log(p, "RemovePRLabels", <<QueryEscape(CLALabelYes)>>, success)
    /\ UNCHANGED <<comments, nextId, Fixed>>

(* line 232 *)
RobotWaitRemoveFailedComment(p) ==
    /\ ev[p].pc = "waitRemoveFailed"
    /\ CreatePRComment(p, commentUpdateLabelFailed)
    /\ Set(p, [ev[p] EXCEPT !.pc = "waitAdd"])
    /\ UNCHANGED <<labels, Fixed>>

(* lines 239-243: the text is made with strings.ReplaceAll *)
RobotSomeNeedSignComment(unsignedUsers) ==
    ReplaceAll(commentSomeNeedSign, placeholderCommitter,
        Join([k \in 1..Len(unsignedUsers) |->
                 ReplaceAll(userMarkFormat, placeholderCommitter,
                            <<unsignedUsers[k]>>)], ", "))

(* lines 236-243: nothing more is done when the snapshot holds CLALabelNo *)
RobotWaitAddPRLabels(p) ==
    /\ \/ ev[p].pc = "waitAdd"
       \/ ev[p].pc = "wait" /\ CLALabelYes \notin ev[p].prLabels
    /\ IF CLALabelNo \in ev[p].prLabels
       THEN /\ Set(p, [ev[p] EXCEPT !.pc = "done"])
            /\ UNCHANGED <<Platform, Fixed, calls>>
       ELSE /\ \E success \in BOOLEAN :
                 /\ labels' = Added(labels, <<CLALabelNo>>, success)
                 /\ Set(p, IF success
                           THEN [ev[p] EXCEPT
                                   !.pc = "cleanup",
                                   !.comment =
                                     RobotSomeNeedSignComment(
                                         ev[p].signResult[2])]
                           ELSE [ev[p] EXCEPT
                                   !.pc = "outcome",
                                   !.comment = commentUpdateLabelFailed])
                 /\ Log(p, "AddPRLabels", <<CLALabelNo>>, success)
            /\ UNCHANGED <<comments, nextId, Fixed>>

(* lines 195-196: the first comment of the listing whose body contains
   placeholderCLASignGuideTitle, 0 if none *)
RobotFirstGuide(listing) ==
    LET ks == { k \in 1..Len(listing) :
                  Contains(listing[k].Body, placeholderCLASignGuideTitle) }
    IN  IF ks = {} THEN 0 ELSE CHOOSE k \in ks : \A m \in ks : k <= m

(* lines 190-196 *)
RobotListPullRequestComments(p) ==
    /\ ev[p].pc = "cleanup"
    /\ \E success \in BOOLEAN :
         /\ Set(p, IF success /\ RobotFirstGuide(comments) # 0
                   THEN [ev[p] EXCEPT !.pc = "delete", !.listing = comments,
                                      !.j = RobotFirstGuide(comments)]
                   ELSE [ev[p] EXCEPT !.pc = "outcome"])
         /\ Log(p, "ListPullRequestComments", <<>>, success)
    /\ UNCHANGED <<Platform, Fixed>>

(* lines 197-198: one comment is deleted, then the loop is left *)
RobotDeletePRComment(p) ==
    /\ ev[p].pc = "delete"
    /\ \E success \in BOOLEAN :
         /\ comments' = Deleted(comments, ev[p].listing[ev[p].j].ID, success)
         /\ Log(p, "DeletePRComment", <<ev[p].listing[ev[p].j].ID>>, success)
    /\ Set(p, [ev[p] EXCEPT !.pc = "outcome", !.listing = <<>>, !.j = 0])
    /\ UNCHANGED <<labels, nextId, Fixed>>

(* lines 221 and 246 *)
RobotCreateOutcomeComment(p) ==
    /\ ev[p].pc = "outcome"
    /\ CreatePRComment(p, ev[p].comment)
    /\ Set(p, [ev[p] EXCEPT !.pc = "done"])
    /\ UNCHANGED <<labels, Fixed>>

(* checkIfAllSignedCLA of robot.go, call by call *)
RobotStep(p) ==
    \/ RobotGetPullRequestCommits(p)
    \/ RobotCommentFetchFailed(p)
    \/ RobotCommentNoCommits(p)
    \/ RobotGetPullRequestLabels(p)
    \/ RobotClassifyExempt(p)
    \/ RobotCheckCLASignature(p)
    \/ RobotReturnPending(p)
    \/ RobotReturnVerdict(p)
    \/ RobotPassRemovePRLabels(p)
    \/ RobotPassRemoveFailedComment(p)
    \/ RobotPassAddPRLabels(p)
    \/ RobotWaitRemovePRLabels(p)
    \/ RobotWaitRemoveFailedComment(p)
    \/ RobotWaitAddPRLabels(p)
    \/ RobotListPullRequestComments(p)
    \/ RobotDeletePRComment(p)
    \/ RobotCreateOutcomeComment(p)

----------------------------------------------------------------------------
(* The events delivered to the handlers *)

PREvents ==
    { GenericEvent("pr", repo, state, action, <<>>) :
        repo \in {"org/repo", "org/other"},
        state \in {"opened", "closed"},
        action \in {"open", "update", "close"} }

CommentTexts ==
    { <<"/check-cla">>, <<"/CHECK-CLA">>, <<"/check-cla", "\n">>,
      <<" ", "/check-cla", " ">>, <<"LGTM", "\n", "/check-cla">>,
      <<"/check-cla", " ", "LGTM">>, <<"LGTM">>,
      <<"/cla cancel">>, <<"/CLA Cancel">>, <<"/cla cancel", " ">>,
      <<"LGTM", "\n", "/cla cancel">>,
      <<"/check-cla", "\n", "/cla cancel">> }

CommentEvents ==
    { GenericEvent("comment", repo, "opened", "comment", text) :
        repo \in {"org/repo", "org/other"}, text \in CommentTexts }

(* one event delivered for a PR that holds one or two comments of an earlier
   evaluation *)
InitEvent ==
    /\ labels \in InitialLabels
    /\ comments \in { <<[ID |-> 1, Body |-> GuideOld]>>,
                      <<[ID |-> 1, Body |-> GuideOld],
                        [ID |-> 2, Body |-> PassOld]>> }
    /\ nextId = Len(comments) + 1
    /\ CheckByCommitter = FALSE
    /\ calls = <<>>
    /\ pr0 = [labels |-> labels, comments |-> comments]
    /\ \E e \in PREvents \cup CommentEvents :
         ev = [p \in Procs |->
                 IF p = "ev1"
                 THEN [Idle EXCEPT
                         !.evt = e,
                         !.pc = IF e.kind = "pr" THEN "prEvent"
                                ELSE "commentEvent"]
                 ELSE Idle]

NextEvent ==
    \/ HandlePullRequestEvent("ev1")
    \/ HandlePullRequestCommentEvent("ev1")
    \/ CancelGetPullRequestLabels("ev1")
    \/ CancelRemovePRLabels("ev1")
    \/ RobotStep("ev1")

SpecEvent == InitEvent /\ [][NextEvent]_vars

----------------------------------------------------------------------------
(* Vocabulary of the properties *)

E == "ev1"

Range(s) == { s[k] : k \in 1..Len(s) }

CallsOf(p) == SelectSeq(calls, LAMBDA c : c.p = p)

Ops(p, op) == SelectSeq(calls, LAMBDA c : c.p = p /\ c.op = op)

(* the evaluation ended before any identity was looked at: the commit fetch
   was its only call before the comment *)
ShortPath(p) ==
    /\ Len(CallsOf(p)) = 2
    /\ CallsOf(p)[1].op = "GetPullRequestCommits"

(* checkCLASignResult has returned to its caller *)
AfterReturn(p) ==
    \/ ev[p].pc \in {"pass", "passRemoveFailed", "passAdd", "wait",
                     "waitRemoveFailed", "waitAdd", "cleanup", "delete",
                     "outcome"}
    \/ ev[p].pc = "done" /\ ~ShortPath(p)

(* the identities the loop of checkCLASignResult has gone through *)
Processed(p) == 1..(ev[p].i - 1)

Identities(p) == 1..Len(ev[p].emails)

(* what the signature service answered for the email, "none" if not asked *)
AnswerFor(p, email) ==
    LET hits == { n \in 1..Len(calls) :
                    /\ calls[n].p = p
                    /\ calls[n].op = "CheckCLASignature"
                    /\ calls[n].arg[3] = email }
    IN  IF hits = {} THEN "none" ELSE calls[CHOOSE n \in hits : TRUE].ret

(* the SignState of identity k as the specification defines it *)
SignStateOf(p, k) ==
    LET email == ev[p].emails[k] IN
    IF email = "e0" \/ email = "" THEN "Unknown"
    ELSE IF AnswerFor(p, email) = "yes" THEN "Signed"
    ELSE IF AnswerFor(p, email) = "no" THEN "Unsigned"
    ELSE "Unknown"

(* the names of the identities in that SignState, in identity order *)
NamesIn(p, state) ==
    LET ks == SelectSeq([k \in Identities(p) |-> k],
                        LAMBDA k : SignStateOf(p, k) = state)
    IN  [n \in 1..Len(ks) |-> ev[p].users[ks[n]]]

Some(p, state) == \E k \in Identities(p) : SignStateOf(p, k) = state

LabelCalls(p) ==
    SelectSeq(calls, LAMBDA c :
        c.p = p /\ c.op \in {"AddPRLabels", "RemovePRLabels"})

(* every platform call of the evaluation succeeded *)
AllSucceeded(p) ==
    \A n \in 1..Len(calls) :
        (calls[n].p = p /\ calls[n].op # "CheckCLASignature") => calls[n].ret

Bodies(cs) == [k \in 1..Len(cs) |-> cs[k].Body]

HasMarker(body) ==
    \E k \in 1..Len(body) :
        body[k] \in {"### CLA Signature Guide", "### CLA Signature Pass"}

(* "@a, @b, ..." *)
RECURSIVE Mentions(_)
Mentions(names) ==
    IF names = <<>> THEN <<>>
    ELSE IF Len(names) = 1 THEN <<"@", names[1]>>
    ELSE <<"@", names[1], ", ">> \o Mentions(Tail(names))

ExpectedAllSigned(names) ==
    <<"### CLA Signature Pass">> \o Mentions(names) \o <<"thanks">>

----------------------------------------------------------------------------
(* C1: when at least one identity is Unknown the verdict is Pending:
   allSigned is false and no unsigned payload is returned, whatever the
   other identities are, some Unsigned one included. *)
C1_UnknownMeansPending ==
    (AfterReturn(E) /\ Some(E, "Unknown")) =>
        /\ ev[E].allSigned = FALSE
        /\ ev[E].signResult[2] = <<>>

C1_Witness ==
    /\ AfterReturn(E)
    /\ Some(E, "Unknown")
    /\ Some(E, "Unsigned")

(* C2: with no Unknown identity and at least one Unsigned, the verdict is
   Fail and the payload is exactly the names of the Unsigned identities in
   first-seen order, none of a Signed identity. *)
C2_FailPayload ==
    (AfterReturn(E) /\ ~Some(E, "Unknown") /\ Some(E, "Unsigned")) =>
        /\ ev[E].allSigned = FALSE
        /\ ev[E].signResult[2] = NamesIn(E, "Unsigned")
        /\ \A k \in Identities(E) :
             SignStateOf(E, k) = "Signed" =>
                 ev[E].users[k] \notin Range(ev[E].signResult[2])

C2_Witness ==
    /\ AfterReturn(E)
    /\ ~Some(E, "Unknown")
    /\ Some(E, "Unsigned")
    /\ Some(E, "Signed")

(* C3: allSigned is true exactly when the identity list is not empty and
   every identity is Signed; the payload is then the names of all the
   identities in first-seen order. *)
C3_PassIff ==
    AfterReturn(E) =>
        /\ ev[E].allSigned <=>
             /\ Len(ev[E].emails) # 0
             /\ \A k \in Identities(E) : SignStateOf(E, k) = "Signed"
        /\ ev[E].allSigned => ev[E].signResult[1] = ev[E].users

C3_Witness ==
    /\ AfterReturn(E)
    /\ ev[E].allSigned
    /\ Len(ev[E].users) = 2

(* C4: an identity whose email is the lite committer's or empty is Unknown
   and the signature service is never asked about it. *)
C4_ExemptNeverAsked ==
    /\ \A k \in Processed(E) :
         (ev[E].emails[k] = "e0" \/ ev[E].emails[k] = "") =>
             /\ ev[E].users[k] \in Range(ev[E].unknownUsers)
             /\ ev[E].users[k] \notin Range(ev[E].signedUsers)
             /\ ev[E].users[k] \notin Range(ev[E].unsignedUsers)
    /\ AnswerFor(E, "e0") = "none"
    /\ AnswerFor(E, "") = "none"

C4_Witness ==
    /\ AfterReturn(E)
    /\ \E k \in Identities(E) : ev[E].emails[k] = "e0"
    /\ \E k \in Identities(E) : ev[E].emails[k] = ""

(* C5: for an identity that is asked about, the answer "yes" gives Signed,
   "no" gives Unsigned and any other answer gives Unknown, and nothing else
   gives Signed or Unsigned. *)
C5_AnswerMapping ==
    \A k \in Processed(E) :
        (ev[E].emails[k] # "e0" /\ ev[E].emails[k] # "") =>
            LET a == AnswerFor(E, ev[E].emails[k])
                u == ev[E].users[k]
            IN  /\ a # "none"
                /\ u \in Range(ev[E].signedUsers) <=> a = "yes"
                /\ u \in Range(ev[E].unsignedUsers) <=> a = "no"
                /\ u \in Range(ev[E].unknownUsers) <=> a \notin {"yes", "no"}

C5_Witness ==
    /\ AfterReturn(E)
    /\ \E k \in Identities(E) : AnswerFor(E, ev[E].emails[k]) = "YES"
    /\ \E k \in Identities(E) : AnswerFor(E, ev[E].emails[k]) = "yes"

----------------------------------------------------------------------------
(* Extraction properties, on ListContributorNameAndEmail alone *)

(* the (name, email) pair of commit k in the field family the policy names *)
NameAt(k) ==
    IF CheckByCommitter THEN ev[E].commits[k].CommitterName
    ELSE ev[E].commits[k].AuthorName

EmailAt(k) ==
    IF CheckByCommitter THEN ev[E].commits[k].CommitterEmail
    ELSE ev[E].commits[k].AuthorEmail

(* the first commit that carries the email *)
FirstAt(email) ==
    CHOOSE k \in 1..Len(ev[E].commits) :
        /\ EmailAt(k) = email
        /\ \A m \in 1..(k - 1) : EmailAt(m) # email

(* C6: the extracted emails are pairwise distinct, are the emails of the
   commits ordered by first occurrence, and each carries the name of the
   first commit with that email. *)
C6_UniqueFirstSeen ==
    ev[E].pc = "listed" =>
        LET users == ev[E].users
            emails == ev[E].emails
        IN  /\ Len(users) = Len(emails)
            /\ \A a, b \in 1..Len(emails) : a # b => emails[a] # emails[b]
            /\ Range(emails) = { EmailAt(k) : k \in 1..Len(ev[E].commits) }
            /\ \A a \in 1..Len(emails) :
                 users[a] = NameAt(FirstAt(emails[a]))
            /\ \A a, b \in 1..Len(emails) :
                 a < b => FirstAt(emails[a]) < FirstAt(emails[b])

C6_Witness ==
    /\ ev[E].pc = "listed"
    /\ ~CheckByCommitter
    /\ Len(ev[E].commits) = 2
    /\ ev[E].commits[1].AuthorEmail = ev[E].commits[2].AuthorEmail
    /\ ev[E].commits[1].AuthorName # ev[E].commits[2].AuthorName
    /\ ev[E].users = <<ev[E].commits[1].AuthorName>>

(* the elements of xs whose key in es is seen for the first time *)
FirstSeen(xs, es) ==
    LET ks == SelectSeq([k \in 1..Len(es) |-> k],
                        LAMBDA k : \A m \in 1..(k - 1) : es[m] # es[k])
    IN  [n \in 1..Len(ks) |-> xs[ks[n]]]

Column(field) == [k \in 1..Len(ev[E].commits) |-> ev[E].commits[k][field]]

(* C7: with checkByCommitter false the result is made of the author fields
   alone, with checkByCommitter true of the committer fields alone. *)
C7_PolicySelectsFamily ==
    ev[E].pc = "listed" =>
        IF CheckByCommitter
        THEN /\ ev[E].emails =
                  FirstSeen(Column("CommitterEmail"), Column("CommitterEmail"))
             /\ ev[E].users =
                  FirstSeen(Column("CommitterName"), Column("CommitterEmail"))
        ELSE /\ ev[E].emails =
                  FirstSeen(Column("AuthorEmail"), Column("AuthorEmail"))
             /\ ev[E].users =
                  FirstSeen(Column("AuthorName"), Column("AuthorEmail"))

C7_Witness ==
    /\ ev[E].pc = "listed"
    /\ CheckByCommitter
    /\ Len(ev[E].commits) = 2
    /\ ev[E].commits[1].AuthorEmail = ev[E].commits[2].AuthorEmail
    /\ ev[E].commits[1].CommitterEmail # ev[E].commits[2].CommitterEmail
    /\ ev[E].commits[2].CommitterEmail = ev[E].commits[1].AuthorEmail
    /\ Len(ev[E].emails) = 2

----------------------------------------------------------------------------
(* Whole evaluations *)

(* C8: a Pending evaluation adds and removes no label and leaves the
   LabelSet as it was, whatever the LabelSet and even with an Unsigned
   identity. *)
C8_PendingKeepsLabels ==
    (AfterReturn(E) /\ Some(E, "Unknown")) =>
        /\ LabelCalls(E) = <<>>
        /\ labels = pr0.labels

C8_Witness ==
    /\ ev[E].pc = "done"
    /\ AfterReturn(E)
    /\ Some(E, "Unknown")
    /\ Some(E, "Unsigned")
    /\ CLALabelYes \in pr0.labels

(* the evaluation is over, its commit fetch succeeded and gave no commit *)
ZeroCommits(p) ==
    /\ ev[p].pc = "done"
    /\ Len(ev[p].emails) = 0
    /\ CallsOf(p)[1].op = "GetPullRequestCommits"
    /\ CallsOf(p)[1].ret

(* C9: with zero commits the signature service is not asked, the "no
   commits" comment is posted exactly once and no label is fetched, added
   or removed. *)
C9_ZeroCommits ==
    ZeroCommits(E) =>
        /\ Ops(E, "CheckCLASignature") = <<>>
        /\ Len(Ops(E, "CreatePRComment")) = 1
        /\ Ops(E, "CreatePRComment")[1].arg = CommentPRNoCommits
        /\ Ops(E, "GetPullRequestLabels") = <<>>
        /\ LabelCalls(E) = <<>>
        /\ labels = pr0.labels

C9_Witness ==
    /\ ZeroCommits(E)
    /\ Bodies(comments) = Bodies(pr0.comments) \o <<CommentPRNoCommits>>

(* C10: a Pass reconciliation on a PR holding labelNo and not labelYes, all
   platform calls succeeding, removes labelNo, adds labelYes, deletes every
   comment holding either marker and posts the "all signed" comment with
   the payload names. *)
C10_PassReconciliation ==
    ( /\ ev[E].pc = "done"
      /\ ev[E].allSigned
      /\ CLALabelNo \in pr0.labels
      /\ CLALabelYes \notin pr0.labels
      /\ AllSucceeded(E) ) =>
        /\ labels = (pr0.labels \ {CLALabelNo}) \cup {CLALabelYes}
        /\ Len(Ops(E, "RemovePRLabels")) = 1
        /\ Len(Ops(E, "AddPRLabels")) = 1
        /\ Ops(E, "AddPRLabels")[1].arg = <<CLALabelYes>>
        /\ Bodies(comments) =
             SelectSeq(Bodies(pr0.comments), LAMBDA b : ~HasMarker(b))
               \o <<ExpectedAllSigned(ev[E].signResult[1])>>

C10_Witness ==
    /\ ev[E].pc = "done"
    /\ ev[E].allSigned
    /\ pr0.labels = {CLALabelNo, OtherLabel}
    /\ AllSucceeded(E)
    /\ Bodies(pr0.comments) = <<Chat, PassOld, GuideOld>>
    /\ Len(ev[E].signResult[1]) = 2
    /\ Len(comments) = 2

----------------------------------------------------------------------------
(* Reconciliation called on its own *)

(* the name list the current call of the reconciliation was given *)
Payload(p) ==
    IF ev[p].allSigned THEN ev[p].signResult[1] ELSE ev[p].signResult[2]

(* the reconciliation has been called and has returned *)
Reconciled(p) == ev[p].round >= 1 /\ ev[p].pc = "done"

MarkerBodies(cs) == SelectSeq(Bodies(cs), HasMarker)

(* C11: waitCLASignature called with an empty list makes no platform call:
   no label is added or removed, no comment is listed, deleted or created,
   whatever the LabelSet. *)
C11_EmptyFailIsNoOp ==
    (ev[E].round >= 1 /\ ~ev[E].allSigned /\ Payload(E) = <<>>) =>
        /\ ev[E].pc = "done"
        /\ CallsOf(E) = <<>>
        /\ labels = pr0.labels
        /\ comments = pr0.comments

C11_Witness ==
    /\ ev[E].round >= 1
    /\ ~ev[E].allSigned
    /\ Payload(E) = <<>>
    /\ CLALabelYes \in ev[E].prLabels
    /\ MarkerBodies(comments) # <<>>

(* the LabelSet is in the Pass terminal state *)
PassState(ls) == CLALabelYes \in ls /\ CLALabelNo \notin ls

(* C12: passCLASignature called on a PR whose LabelSet is already in the
   Pass terminal state, a first and a second time, removes no label, calls
   AddPRLabels(labelYes) exactly once and leaves the LabelSet as it was. *)
C12_PassIdempotentOnLabels ==
    (Reconciled(E) /\ ev[E].allSigned /\ PassState(pr0.labels)) =>
        /\ Ops(E, "RemovePRLabels") = <<>>
        /\ Len(Ops(E, "AddPRLabels")) = 1
        /\ Ops(E, "AddPRLabels")[1].arg = <<CLALabelYes>>
        /\ labels = pr0.labels

(* the second call in a row: the thread holds the "all signed" comment the
   first call posted *)
C12_Witness ==
    /\ Reconciled(E)
    /\ ev[E].round = 2
    /\ ev[E].allSigned
    /\ PassState(pr0.labels)
    /\ CLALabelYes \in ev[E].prLabels
    /\ \E k \in 1..Len(pr0.comments) :
         pr0.comments[k].Body = AllSignedComment(<<"u1">>)
    /\ Ops(E, "AddPRLabels")[1].ret
    /\ labels = pr0.labels

----------------------------------------------------------------------------
(* Whole evaluations: labels and verdict *)

(* the evaluation is over and its verdict was Pass *)
EndedPass(p) == ev[p].pc = "done" /\ AfterReturn(p) /\ ev[p].allSigned

(* the evaluation is over and its verdict was Fail, some name in the payload *)
EndedFail(p) ==
    /\ ev[p].pc = "done"
    /\ AfterReturn(p)
    /\ ~ev[p].allSigned
    /\ ev[p].signResult[2] # <<>>

CLALabels == {CLALabelYes, CLALabelNo}

(* C13: after one evaluation alone on the PR whose platform calls all
   succeed, from any LabelSet, Pass leaves labelYes and not labelNo, Fail
   leaves labelNo and not labelYes, and the other labels are as before. *)
C13_LabelsFollowVerdict ==
    AllSucceeded(E) =>
        /\ EndedPass(E) =>
             /\ labels \cap CLALabels = {CLALabelYes}
             /\ labels \ CLALabels = pr0.labels \ CLALabels
        /\ EndedFail(E) =>
             /\ labels \cap CLALabels = {CLALabelNo}
             /\ labels \ CLALabels = pr0.labels \ CLALabels

C13_Witness ==
    /\ AllSucceeded(E)
    /\ EndedFail(E)
    /\ pr0.labels = {CLALabelYes, CLALabelNo, OtherLabel}
    /\ labels = {CLALabelNo, OtherLabel}

(* the comment a finished Pass or Fail reconciliation owes the PR *)
OutcomeBody(p) ==
    IF ~Ops(p, "AddPRLabels")[1].ret THEN CommentUpdateLabelFailed
    ELSE IF ev[p].allSigned THEN AllSignedComment(ev[p].signResult[1])
    ELSE SomeNeedSignComment(ev[p].signResult[2])

RemoveFailed(p) ==
    \E n \in 1..Len(Ops(p, "RemovePRLabels")) : ~Ops(p, "RemovePRLabels")[n].ret

(* C14 as stated: every evaluation that ends in Pass or Fail makes exactly
   one AddPRLabels call and exactly one CreatePRComment call, whatever the
   platform calls return. *)
C14_OneCommentAlways ==
    (EndedPass(E) \/ EndedFail(E)) =>
        /\ Len(Ops(E, "AddPRLabels")) = 1
        /\ Len(Ops(E, "CreatePRComment")) = 1

(* C14 amended: every evaluation that ends in Pass or Fail makes at most one
   RemovePRLabels call and exactly one AddPRLabels call, and its last call
   creates the one outcome comment; it is the only CreatePRComment call
   unless the RemovePRLabels call failed, and then exactly one "label update
   failed" comment precedes the AddPRLabels call. *)
C14_OneAttemptOneOutcome ==
    (EndedPass(E) \/ EndedFail(E)) =>
        LET cs == CallsOf(E)
            posts == Ops(E, "CreatePRComment")
        IN  /\ Len(Ops(E, "AddPRLabels")) = 1
            /\ Len(Ops(E, "RemovePRLabels")) <= 1
            /\ cs[Len(cs)].op = "CreatePRComment"
            /\ cs[Len(cs)].arg = OutcomeBody(E)
            /\ Len(posts) = IF RemoveFailed(E) THEN 2 ELSE 1
            /\ RemoveFailed(E) =>
                 \E n \in 1..(Len(cs) - 1) :
                    /\ cs[n].op = "RemovePRLabels"
                    /\ cs[n + 1].op = "CreatePRComment"
                    /\ cs[n + 1].arg = CommentUpdateLabelFailed
                    /\ cs[n + 2].op = "AddPRLabels"

C14_Witness ==
    /\ EndedPass(E)
    /\ RemoveFailed(E)
    /\ Ops(E, "AddPRLabels")[1].ret
    /\ Len(Ops(E, "CreatePRComment")) = 2
    /\ Ops(E, "CreatePRComment")[2].arg = AllSignedComment(ev[E].signResult[1])

----------------------------------------------------------------------------
(* Event handlers *)

(* the handler has decided what to do with the event *)
Handled(p) == ev[p].pc \notin {"prEvent", "commentEvent"}

(* the handler went on to checkIfAllSignedCLA *)
Evaluated(p) ==
    \/ ev[p].pc = "idle"
    \/ /\ CallsOf(p) # <<>>
       /\ CallsOf(p)[1].op = "GetPullRequestCommits"

(* nothing was asked of the platform or the signature service, nothing
   changed on the PR *)
Untouched(p) ==
    /\ CallsOf(p) = <<>>
    /\ labels = pr0.labels
    /\ comments = pr0.comments

PolicyMatches(evt) == evt.repo = "org/repo"

(* C15: a PR event is evaluated only if a repository policy matches and the
   PR is in state "opened" with action open or update; any other PR event
   fetches no commit, checks no signature, changes no label and posts no
   comment. *)
C15_OnlyOpenOrUpdate ==
    LET e == ev[E].evt IN
    (e.kind = "pr" /\ ~( /\ PolicyMatches(e)
                         /\ e.state = "opened"
                         /\ e.action \in {"open", "update"} )) =>
        /\ ~Evaluated(E)
        /\ Untouched(E)
        /\ ev[E].pc \in {"prEvent", "done"}

C15_Witness ==
    /\ ev[E].evt.kind = "pr"
    /\ PolicyMatches(ev[E].evt)
    /\ ev[E].evt.state = "closed"
    /\ ev[E].evt.action = "update"
    /\ ev[E].pc = "done"
    /\ Untouched(E)

IsBlank(token) == token \in {" ", "\n"}

(* the text without its leading and trailing blanks and line breaks *)
Trim(text) ==
    LET ks == { k \in 1..Len(text) : ~IsBlank(text[k]) }
    IN  IF ks = {} THEN <<>>
        ELSE SubSeq(text,
                    CHOOSE k \in ks : \A m \in ks : k <= m,
                    CHOOSE k \in ks : \A m \in ks : m <= k)

(* the text is the command and nothing else, case and surrounding blanks
   aside *)
IsExactly(text, command) ==
    /\ Len(Trim(text)) = 1
    /\ ToLower(Trim(text)[1]) = command

(* C16: a comment event on a configured repository is evaluated if and only
   if its text, case and surrounding whitespace aside, is exactly
   /check-cla; a comment with other text besides the command is not. *)
C16_ExactlyCheckCLA ==
    LET e == ev[E].evt IN
    (e.kind = "comment" /\ PolicyMatches(e) /\ Handled(E)) =>
        (Evaluated(E) <=> IsExactly(e.comment, "/check-cla"))

(* C17: a comment that is exactly /cla cancel on a PR holding labelYes
   passes labelYes to RemovePRLabels, and after the calls succeeded the PR
   does not hold labelYes. *)
C17_CancelRemovesYes ==
    LET e == ev[E].evt IN
    ( /\ e.kind = "comment"
      /\ PolicyMatches(e)
      /\ e.comment = <<"/cla cancel">>
      /\ CLALabelYes \in pr0.labels
      /\ ev[E].pc = "done"
      /\ AllSucceeded(E) ) =>
        /\ Len(Ops(E, "RemovePRLabels")) = 1
        /\ Ops(E, "RemovePRLabels")[1].arg = <<QueryEscape(CLALabelYes)>>
        /\ CLALabelYes \notin labels

(* C18: when no repository policy matches the event's repository, neither
   handler calls the platform or the signature service, and no comment is
   posted. *)
C18_NoPolicyDrops ==
    (ev[E].evt.kind \in {"pr", "comment"} /\ ~PolicyMatches(ev[E].evt)) =>
        /\ ~Evaluated(E)
        /\ Untouched(E)
        /\ ev[E].pc \in {"prEvent", "commentEvent", "done"}

C18_Witness ==
    /\ ev[E].evt.kind = "comment"
    /\ ~PolicyMatches(ev[E].evt)
    /\ ev[E].evt.comment = <<"/check-cla">>
    /\ ev[E].pc = "done"
    /\ Untouched(E)

----------------------------------------------------------------------------
(* Overlapping evaluations *)

(* the positions in the log of the calls of p with one of the operations *)
Positions(p, ops) ==
    { n \in 1..Len(calls) : calls[n].p = p /\ calls[n].op \in ops }

Last(S) == CHOOSE n \in S : \A m \in S : m <= n

CleanupOps == {"ListPullRequestComments", "DeletePRComment"}

(* both evaluations are over, every call succeeded, both went through the
   cleanup and each finished it before the other posted its comment *)
BothCleanedBeforeEitherPosted ==
    /\ \A p \in Procs : ev[p].round = 1 /\ ev[p].pc = "done"
    /\ \A n \in 1..Len(calls) : calls[n].ret
    /\ \A p \in Procs : Positions(p, CleanupOps) # {}
    /\ \A p, q \in Procs :
         Last(Positions(p, CleanupOps)) < Last(Positions(q, {"CreatePRComment"}))

(* C19: when two evaluations of one PR interleave so that both finish the
   guidance cleanup before either posts, every call succeeding, the PR ends
   with two guidance comments. *)
C19_DuplicateGuidance ==
    BothCleanedBeforeEitherPosted => Len(MarkerBodies(comments)) = 2

C19_Witness ==
    /\ BothCleanedBeforeEitherPosted
    /\ \A p \in Procs : ev[p].allSigned
    /\ MarkerBodies(comments) =
         <<AllSignedComment(<<"u1">>), AllSignedComment(<<"u1">>)>>
    /\ MarkerBodies(pr0.comments) # <<>>

----------------------------------------------------------------------------
(* Successive evaluations *)

(* the call of the reconciliation was a Pass, or a Fail with some name *)
Acted(p) == ev[p].allSigned \/ Payload(p) # <<>>

(* C20: with a marker in both templates, after evaluations that follow one
   another, a Pass or Fail reconciliation whose platform calls all succeed
   leaves exactly one comment holding a marker on the PR: its own outcome
   comment, the last of the thread. *)
C20_SingleGuidanceComment ==
    (Reconciled(E) /\ Acted(E) /\ AllSucceeded(E)) =>
        /\ HasMarker(OutcomeBody(E))
        /\ MarkerBodies(comments) = <<OutcomeBody(E)>>
        /\ comments[Len(comments)].Body = OutcomeBody(E)

(* the second evaluation replaced the comment the first one posted *)
C20_Witness ==
    /\ Reconciled(E)
    /\ ev[E].round = 2
    /\ AllSucceeded(E)
    /\ ~ev[E].allSigned
    /\ \E k \in 1..Len(pr0.comments) :
         pr0.comments[k].Body = AllSignedComment(<<"u1">>)
    /\ MarkerBodies(comments) = <<SomeNeedSignComment(<<"u2", "u1">>)>>

----------------------------------------------------------------------------
(* Failures of the calls *)

(* the identity the loop has just classified was asked about, and the
   service reported that the check failed *)
LastCheckFailed(p) ==
    /\ ev[p].pc = "classify"
    /\ ev[p].i > 1
    /\ calls # <<>>
    /\ calls[Len(calls)].p = p
    /\ calls[Len(calls)].op = "CheckCLASignature"
    /\ calls[Len(calls)].arg[3] = ev[p].emails[ev[p].i - 1]
    /\ ~ev[p].success

(* C21: an identity whose signature check reports a failure is Unknown, not
   Signed and not Unsigned, whatever state string comes with the failure. *)
C21_FailedCheckIsUnknown ==
    LastCheckFailed(E) =>
        LET user == ev[E].users[ev[E].i - 1]
        IN  /\ user \in Range(ev[E].unknownUsers)
            /\ user \notin Range(ev[E].signedUsers)
            /\ user \notin Range(ev[E].unsignedUsers)

(* the evaluation began with a commit fetch that failed *)
FetchFailed(p) ==
    /\ CallsOf(p) # <<>>
    /\ CallsOf(p)[1].op = "GetPullRequestCommits"
    /\ ~CallsOf(p)[1].ret

(* C22: when the commit fetch fails the evaluation stops: the only call
   that follows is the one CreatePRComment of the fixed fallback comment; no
   label is fetched, added or removed, no signature is checked and no
   comment is listed or deleted. *)
C22_CommitFetchFailureAborts ==
    FetchFailed(E) =>
        LET cs == CallsOf(E) IN
        /\ Len(cs) <= 2
        /\ ev[E].pc = "done" => Len(cs) = 2
        /\ Len(cs) = 2 =>
             /\ cs[2].op = "CreatePRComment"
             /\ cs[2].arg = CommentCommandTrigger
             /\ ev[E].pc = "done"
        /\ labels = pr0.labels
        /\ Bodies(comments) \in
             {Bodies(pr0.comments),
              Bodies(pr0.comments) \o <<CommentCommandTrigger>>}
        /\ ev[E].users = <<>>

C22_Witness ==
    /\ FetchFailed(E)
    /\ ev[E].pc = "done"
    /\ Bodies(comments) = Bodies(pr0.comments) \o <<CommentCommandTrigger>>
    /\ MarkerBodies(comments) # <<>>

(* the label fetch of the evaluation reported a failure *)
LabelFetchFailed(p) ==
    \E n \in 1..Len(Ops(p, "GetPullRequestLabels")) :
        ~Ops(p, "GetPullRequestLabels")[n].ret

(* C23: when the label fetch fails the evaluation stops: it makes no
   AddPRLabels call and no RemovePRLabels call. *)
C23_LabelFetchFailureAborts ==
    LabelFetchFailed(E) => LabelCalls(E) = <<>>

(* the label the verdict asks for, and the one it excludes *)
VerdictLabel(p) == IF ev[p].allSigned THEN CLALabelYes ELSE CLALabelNo

OppositeLabel(p) == IF ev[p].allSigned THEN CLALabelNo ELSE CLALabelYes

(* C24: a RemovePRLabels call that fails does not end the reconciliation:
   in the Pass path, and likewise in the Fail path, it was made because the
   snapshot holds the opposite label, the fixed "label update failed"
   comment is posted next and AddPRLabels for the label of the verdict is
   attempted after it. *)
C24_RemoveFailureIsNotFatal ==
    LET cs == CallsOf(E) IN
    \A n \in 1..Len(cs) :
        (cs[n].op = "RemovePRLabels" /\ ~cs[n].ret) =>
            /\ OppositeLabel(E) \in ev[E].prLabels
            /\ cs[n].arg = <<QueryEscape(OppositeLabel(E))>>
            /\ ev[E].pc = "done" => Len(cs) >= n + 2
            /\ Len(cs) >= n + 1 =>
                 /\ cs[n + 1].op = "CreatePRComment"
                 /\ cs[n + 1].arg = CommentUpdateLabelFailed
            /\ Len(cs) >= n + 2 =>
                 /\ cs[n + 2].op = "AddPRLabels"
                 /\ cs[n + 2].arg = <<VerdictLabel(E)>>

(* the Fail path went on after the failed removal and added labelNo next to
   the labelYes it could not remove *)
C24_Witness ==
    /\ EndedFail(E)
    /\ RemoveFailed(E)
    /\ Ops(E, "AddPRLabels")[1].ret
    /\ Ops(E, "CreatePRComment")[1].arg = CommentUpdateLabelFailed
    /\ {CLALabelYes, CLALabelNo} \subseteq labels

----------------------------------------------------------------------------
(* Outcome comment and guidance cleanup *)

(* "### CLA Signature Guide" + mentions + sign and FAQ links *)
ExpectedSomeNeedSign(names) ==
    <<"### CLA Signature Guide">> \o Mentions(names)
        \o <<"sign at", SignURL, "faq at", FAQURL>>

(* the templated comment of the verdict *)
Templated(p) ==
    IF ev[p].allSigned THEN ExpectedAllSigned(ev[p].signResult[1])
    ELSE ExpectedSomeNeedSign(ev[p].signResult[2])

(* the last call of the evaluation *)
LastCall(p) == CallsOf(p)[Len(CallsOf(p))]

(* C25: in a finished Pass or Fail reconciliation the templated outcome
   comment is posted and the guidance cleanup runs exactly when AddPRLabels
   succeeded; when it failed the fixed failure comment is posted instead,
   no comment is listed or deleted and the guidance comments of the PR stay
   where they were. *)
C25_OutcomeFollowsAdd ==
    (EndedPass(E) \/ EndedFail(E)) =>
        LET add == Ops(E, "AddPRLabels")[1] IN
        /\ LastCall(E).op = "CreatePRComment"
        /\ add.ret <=> LastCall(E).arg = Templated(E)
        /\ add.ret <=> Len(Ops(E, "ListPullRequestComments")) = 1
        /\ ~add.ret =>
             /\ LastCall(E).arg = CommentUpdateLabelFailed
             /\ Ops(E, "ListPullRequestComments") = <<>>
             /\ Ops(E, "DeletePRComment") = <<>>
             /\ MarkerBodies(comments) = MarkerBodies(pr0.comments)
             /\ \A k \in 1..Len(pr0.comments) : comments[k] = pr0.comments[k]

(* AddPRLabels failed on a PR with guidance comments: they are all there
   after the failure comment was posted *)
C25_Witness ==
    /\ EndedFail(E)
    /\ ~Ops(E, "AddPRLabels")[1].ret
    /\ Len(MarkerBodies(pr0.comments)) = 2
    /\ MarkerBodies(comments) = MarkerBodies(pr0.comments)
    /\ comments[Len(comments)].Body = CommentUpdateLabelFailed

(* C26: a Fail reconciliation with some unsigned name calls RemovePRLabels,
   for labelYes, exactly when the snapshot holds labelYes, and calls
   AddPRLabels for labelNo exactly once whatever the snapshot, labelNo
   already there included; when that call succeeds the comment it posts
   carries the unsigned names, the sign URL and the FAQ URL and nothing
   else. *)
C26_FailReconciliation ==
    EndedFail(E) =>
        LET removes == Ops(E, "RemovePRLabels")
            adds == Ops(E, "AddPRLabels")
        IN  /\ Len(removes) = IF CLALabelYes \in ev[E].prLabels THEN 1 ELSE 0
            /\ \A n \in 1..Len(removes) :
                 removes[n].arg = <<"cla%2Fyes">>
            /\ Len(adds) = 1
            /\ adds[1].arg = <<CLALabelNo>>
            /\ adds[1].ret =>
                 /\ LastCall(E).op = "CreatePRComment"
                 /\ LastCall(E).arg =
                      ExpectedSomeNeedSign(NamesIn(E, "Unsigned"))
                 /\ NamesIn(E, "Unsigned") # <<>>

(* labelNo was already in the snapshot and was added again; two names are
   mentioned *)
C26_Witness ==
    /\ EndedFail(E)
    /\ ev[E].prLabels = {CLALabelYes, CLALabelNo, OtherLabel}
    /\ Len(Ops(E, "RemovePRLabels")) = 1
    /\ Ops(E, "AddPRLabels")[1].ret
    /\ LastCall(E).ret
    /\ comments[Len(comments)].Body =
         <<"### CLA Signature Guide", "@", "u2", ", ", "@", "u1",
           "sign at", SignURL, "faq at", FAQURL>>

(* the cleanup of the evaluation got its listing *)
Listed(p) ==
    /\ Len(Ops(p, "ListPullRequestComments")) = 1
    /\ Ops(p, "ListPullRequestComments")[1].ret

(* the cleanup of the evaluation is over *)
CleanupOver(p) == ev[p].pc \in {"outcome", "done"}

(* the comments the PR had when the evaluation began that hold a marker *)
Guidance == SelectSeq(pr0.comments, LAMBDA c : HasMarker(c.Body))

(* the comment IDs the DeletePRComment calls of the evaluation were given *)
DeletedIDs(p) ==
    [n \in 1..Len(Ops(p, "DeletePRComment")) |->
        Ops(p, "DeletePRComment")[n].arg[1]]

(* C27: the cleanup calls DeletePRComment for each comment of the listing
   whose body holds the guide marker or the pass marker, every one of them
   and not only the first, and for no other comment; with an empty listing
   or no such comment it makes no delete call. *)
C27_DeletesExactlyGuidance ==
    /\ \A n \in 1..Len(DeletedIDs(E)) :
         /\ n <= Len(Guidance)
         /\ DeletedIDs(E)[n] = Guidance[n].ID
    /\ (Listed(E) /\ CleanupOver(E)) =>
         /\ Len(DeletedIDs(E)) = Len(Guidance)
         /\ Guidance = <<>> => Ops(E, "DeletePRComment") = <<>>
    /\ \A k \in 1..Len(pr0.comments) :
         ~HasMarker(pr0.comments[k].Body) =>
             \E m \in 1..Len(comments) : comments[m] = pr0.comments[k]

(* two guidance comments after a comment without marker: both are deleted,
   the other one stays *)
C27_Witness ==
    /\ Listed(E)
    /\ ev[E].pc = "done"
    /\ Bodies(pr0.comments) = <<Chat, PassOld, GuideOld>>
    /\ DeletedIDs(E) = <<2, 3>>
    /\ \A n \in 1..2 : Ops(E, "DeletePRComment")[n].ret
    /\ comments[1] = pr0.comments[1]
    /\ Len(MarkerBodies(comments)) <= 1

(* the listing of the cleanup failed *)
ListFailed(p) ==
    /\ Ops(p, "ListPullRequestComments") # <<>>
    /\ ~Ops(p, "ListPullRequestComments")[1].ret

(* C28: when the listing fails the cleanup deletes nothing and posts
   nothing, and the reconciliation it is part of still posts its outcome
   comment: the call after the listing, the last one, creates the templated
   comment. *)
C28_ListFailureSkipsCleanup ==
    ListFailed(E) =>
        LET n == Last(Positions(E, {"ListPullRequestComments"}))
            after == SelectSeq(SubSeq(calls, n + 1, Len(calls)),
                               LAMBDA c : c.p = E)
        IN  /\ Ops(E, "DeletePRComment") = <<>>
            /\ Len(after) <= 1
            /\ ev[E].pc = "done" => Len(after) = 1
            /\ \A m \in 1..Len(after) :
                 /\ after[m].op = "CreatePRComment"
                 /\ after[m].arg = Templated(E)
            /\ \A k \in 1..Len(pr0.comments) : comments[k] = pr0.comments[k]

(* the old guidance comment is still there under the new one *)
C28_Witness ==
    /\ ListFailed(E)
    /\ EndedPass(E)
    /\ LastCall(E).ret
    /\ Bodies(pr0.comments) = <<GuideOld>>
    /\ Bodies(comments) = <<GuideOld, ExpectedAllSigned(ev[E].signResult[1])>>

(* some DeletePRComment call of the evaluation failed *)
DeleteFailed(p) ==
    \E n \in 1..Len(Ops(p, "DeletePRComment")) :
        ~Ops(p, "DeletePRComment")[n].ret

(* C29: a DeletePRComment call that fails is not made again and is not
   reported: no comment ID is given to two delete calls, the cleanup goes on
   to the remaining guidance comments, so that each one gets its call, the
   comment whose deletion failed stays on the PR, and the only comment
   posted after the listing is the templated outcome comment. *)
C29_FailedDeleteIsDropped ==
    DeleteFailed(E) =>
        LET dels == Ops(E, "DeletePRComment")
            n == Last(Positions(E, {"ListPullRequestComments"}))
            after == SelectSeq(SubSeq(calls, n + 1, Len(calls)),
                               LAMBDA c : c.p = E)
        IN  /\ \A a, b \in 1..Len(dels) : dels[a].arg = dels[b].arg => a = b
            /\ CleanupOver(E) => Len(dels) = Len(Guidance)
            /\ \A a \in 1..Len(dels) :
                 ~dels[a].ret =>
                     \E m \in 1..Len(comments) : comments[m].ID = dels[a].arg[1]
            /\ \A m \in 1..Len(after) :
                 \/ after[m].op = "DeletePRComment"
                 \/ /\ after[m].op = "CreatePRComment"
                    /\ after[m].arg = Templated(E)
                    /\ m = Len(after)
            /\ ev[E].pc = "done" => LastCall(E).op = "CreatePRComment"

(* the first deletion failed, the second was made all the same *)
C29_Witness ==
    /\ ev[E].pc = "done"
    /\ Len(Ops(E, "DeletePRComment")) = 2
    /\ ~Ops(E, "DeletePRComment")[1].ret
    /\ Ops(E, "DeletePRComment")[2].ret
    /\ Len(Ops(E, "CreatePRComment")) = 1
    /\ Len(MarkerBodies(comments)) = 2

(* C30: in the Pass and Fail paths the listing and the deletions come after
   AddPRLabels and before the outcome comment is created, and that
   CreatePRComment is the last call of the reconciliation whatever the calls
   return; so the cleanup only deletes comments the PR had before, and the
   outcome comment, once posted, is the last comment of the PR. *)
C30_CleanupBeforeOutcome ==
    LET cs == CallsOf(E)
        at(ops) == { n \in 1..Len(cs) : cs[n].op \in ops }
    IN  /\ \A m \in at(CleanupOps) :
             /\ \E a \in at({"AddPRLabels"}) : a < m /\ cs[a].ret
             /\ \A n \in at({"CreatePRComment"}) :
                  m < n => (n = Len(cs) /\ ev[E].pc = "done")
        /\ \A a \in at({"AddPRLabels"}), n \in at({"CreatePRComment"}) :
             a < n => (n = Len(cs) /\ ev[E].pc = "done")
        /\ (EndedPass(E) \/ EndedFail(E)) =>
             /\ LastCall(E).op = "CreatePRComment"
             /\ LastCall(E).arg = OutcomeBody(E)
        /\ \A n \in 1..Len(DeletedIDs(E)) :
             DeletedIDs(E)[n] <= Len(pr0.comments)
        /\ ((EndedPass(E) \/ EndedFail(E)) /\ LastCall(E).ret) =>
             /\ comments[Len(comments)].Body = LastCall(E).arg
             /\ comments[Len(comments)].ID > Len(pr0.comments)

(* two deletions, one of them failing, then the comment *)
C30_Witness ==
    /\ EndedFail(E)
    /\ Len(Ops(E, "DeletePRComment")) = 2
    /\ DeleteFailed(E)
    /\ RemoveFailed(E)
    /\ LastCall(E).ret
    /\ HasMarker(LastCall(E).arg)
    /\ comments[Len(comments)].Body = LastCall(E).arg

----------------------------------------------------------------------------
(* The signature checks of one evaluation *)

(* the emails the CheckCLASignature calls of the evaluation were about *)
AskedEmails(p) ==
    [n \in 1..Len(Ops(p, "CheckCLASignature")) |->
        Ops(p, "CheckCLASignature")[n].arg[3]]

(* the emails of the identities the loop has gone through that are not
   exempt, in identity order *)
EmailsToAsk(p) ==
    LET all == [k \in 1..(ev[p].i - 1) |-> ev[p].emails[k]]
    IN  SelectSeq(all, LAMBDA e : e # "e0" /\ e # "")

(* C31: within one evaluation the signature service is asked exactly once
   about each email that is not exempt, in identity order, whatever it
   answers: no email is asked about twice; and every signature check comes
   before the first AddPRLabels or RemovePRLabels call. *)
C31_OneCheckPerIdentity ==
    /\ ev[E].pc # "idle" => AskedEmails(E) = EmailsToAsk(E)
    /\ \A a, b \in 1..Len(AskedEmails(E)) :
         AskedEmails(E)[a] = AskedEmails(E)[b] => a = b
    /\ AfterReturn(E) => ev[E].i = Len(ev[E].emails) + 1
    /\ \A n \in Positions(E, {"CheckCLASignature"}),
          m \in Positions(E, {"AddPRLabels", "RemovePRLabels"}) : n < m

(* two identities with different answers: one call each, in identity
   order, and the two label calls come afterwards *)
C31_Witness ==
    /\ EndedFail(E)
    /\ AskedEmails(E) = <<"e2", "e1">>
    /\ Ops(E, "CheckCLASignature")[1].ret = "no"
    /\ Ops(E, "CheckCLASignature")[2].ret = "yes"
    /\ Len(LabelCalls(E)) = 2

(* C32: checkCLASignResult returns at most one non-empty list: with some
   Unknown identity the unknown names alone, the signed and unsigned lists
   empty whatever the other identities are; otherwise, with some Unsigned
   identity, the unsigned names alone; otherwise the signed names alone. *)
C32_OneListReturned ==
    AfterReturn(E) =>
        LET r == ev[E].signResult IN
        /\ Cardinality({ k \in 1..3 : r[k] # <<>> }) <= 1
        /\ Some(E, "Unknown") =>
             r = << <<>>, <<>>, NamesIn(E, "Unknown") >>
        /\ (~Some(E, "Unknown") /\ Some(E, "Unsigned")) =>
             r = << <<>>, NamesIn(E, "Unsigned"), <<>> >>
        /\ (~Some(E, "Unknown") /\ ~Some(E, "Unsigned")) =>
             r = << NamesIn(E, "Signed"), <<>>, <<>> >>

(* one identity was classified Signed, the other Unknown: the signed list
   the loop built is not returned *)
C32_Witness ==
    /\ AfterReturn(E)
    /\ Some(E, "Unknown")
    /\ Some(E, "Signed")
    /\ ev[E].signedUsers # <<>>
    /\ ev[E].signResult[1] = <<>>
    /\ Len(ev[E].signResult[3]) = 1

(* checkCLASignResult was called with no commit and has returned *)
ReturnedOnNoCommit(p) ==
    /\ ev[p].pc \notin {"call", "classify"}
    /\ ev[p].emails = <<>>

(* C33: checkCLASignResult called with an empty commit list returns
   allSigned false and three empty lists, asks the signature service nothing
   and posts no comment; allSigned is never true with no identity. *)
C33_NoCommitNoVerdict ==
    /\ ReturnedOnNoCommit(E) =>
         /\ ev[E].pc = "done"
         /\ ~ev[E].allSigned
         /\ ev[E].signResult = << <<>>, <<>>, <<>> >>
         /\ CallsOf(E) = <<>>
         /\ comments = pr0.comments
    /\ ev[E].allSigned => Len(ev[E].emails) > 0

C33_Witness ==
    /\ ReturnedOnNoCommit(E)
    /\ ev[E].i = 1
    /\ ev[E].users = <<>>
    /\ calls = <<>>

(* C34: a Pending evaluation is over as soon as checkCLASignResult returns;
   it makes exactly one CreatePRComment call, for the fixed retry comment,
   lists and deletes no comment, and the comments the PR had are all still
   there. *)
C34_PendingPostsRetryOnly ==
    (AfterReturn(E) /\ Some(E, "Unknown")) =>
        /\ ev[E].pc = "done"
        /\ Len(Ops(E, "CreatePRComment")) = 1
        /\ Ops(E, "CreatePRComment")[1].arg = CommentCommandTrigger
        /\ LastCall(E).op = "CreatePRComment"
        /\ Ops(E, "ListPullRequestComments") = <<>>
        /\ Ops(E, "DeletePRComment") = <<>>
        /\ Bodies(comments) =
             IF LastCall(E).ret
             THEN Bodies(pr0.comments) \o <<CommentCommandTrigger>>
             ELSE Bodies(pr0.comments)
        /\ \A k \in 1..Len(pr0.comments) : comments[k] = pr0.comments[k]

(* an old guidance comment stays under the retry comment *)
C34_Witness ==
    /\ AfterReturn(E)
    /\ Some(E, "Unknown")
    /\ Some(E, "Signed")
    /\ Bodies(pr0.comments) = <<GuideOld, Chat>>
    /\ Bodies(comments) = <<GuideOld, Chat, CommentCommandTrigger>>

----------------------------------------------------------------------------
(* Two evaluations of one PR, the second after the first: same commits, same
   policy, same answers of the signature service; the labels and the
   comments the second one finds are what the first one left *)

E2 == "ev2"

(* the commit lists of the pair *)
PairCommits ==
    { <<PRCommit(Person("u1", "e1"), Person("u2", "e2"))>>,
      <<PRCommit(Person("u2", "e2"), Person("u1", "e1")),
        PRCommit(Person("u1", "e1"), Person("u2", "e2"))>>,
      <<PRCommit(Person("u1", "e1"), Person("u0", "e0"))>> }

(* the second evaluation has the identities of the first and gets the
   answers the first one got *)
SecondAgrees ==
    /\ ev[E2].emails # <<>> =>
         /\ ev[E2].emails = ev[E].emails
         /\ ev[E2].users = ev[E].users
    /\ \A n \in 1..Len(calls) :
         (calls[n].p = E2 /\ calls[n].op = "CheckCLASignature") =>
             calls[n].ret = AnswerFor(E, calls[n].arg[3])

(* the evaluation whose turn it is starts on one of the commit lists *)
FetchPair(p) ==
    /\ GetPullRequestCommits(p)
    /\ ev'[p].commits \in PairCommits

EvaluatePair(p) ==
    \/ FetchPair(p)
    \/ GetPullRequestLabels(p)
    \/ ClassifyExempt(p)
    \/ CheckCLASignature(p)
    \/ ReturnPending(p)
    \/ ReturnVerdict(p)
    \/ Reconcile(p)

NextPair ==
    \/ EvaluatePair(E)
    \/ ev[E].pc = "done" /\ EvaluatePair(E2) /\ SecondAgrees'

InitPair ==
    /\ labels \in InitialLabels
    /\ comments \in {<<>>, <<[ID |-> 1, Body |-> GuideOld]>>}
    /\ nextId = Len(comments) + 1
    /\ CheckByCommitter \in BOOLEAN
    /\ calls = <<>>
    /\ pr0 = [labels |-> labels, comments |-> comments]
    /\ ev = [p \in Procs |-> Idle]

SpecPair == InitPair /\ [][NextPair]_vars

(* both evaluations have their verdict, from the same identities and the
   same answers *)
PairReturned ==
    /\ AfterReturn(E)
    /\ AfterReturn(E2)
    /\ ev[E2].emails = ev[E].emails
    /\ ev[E2].users = ev[E].users
    /\ \A k \in Identities(E) :
         AnswerFor(E2, ev[E].emails[k]) = AnswerFor(E, ev[E].emails[k])

(* C35: the verdict and its payload depend on the commits, the policy and
   the answers of the signature service alone: two evaluations that agree on
   these return the same allSigned and the same lists, whatever labels and
   comments each one finds on the PR. *)
C35_VerdictIgnoresPRState ==
    PairReturned =>
        /\ ev[E2].allSigned = ev[E].allSigned
        /\ ev[E2].signResult = ev[E].signResult
        /\ Payload(E2) = Payload(E)

(* the second evaluation found other labels and one more comment than the
   first, and failed the PR as the first did *)
C35_Witness ==
    /\ PairReturned
    /\ ev[E2].pc = "done"
    /\ ev[E].prLabels = {CLALabelYes, OtherLabel}
    /\ ev[E2].prLabels = {CLALabelNo, OtherLabel}
    /\ Len(comments) > Len(pr0.comments)
    /\ ~ev[E].allSigned
    /\ Payload(E2) = <<"u2">>

----------------------------------------------------------------------------
(* Overlapping evaluations with opposite verdicts *)

(* both evaluations are over, one passed the PR and the other failed it, and
   every call of both succeeded *)
OppositeVerdicts ==
    /\ \A p \in Procs : ev[p].round = 1 /\ ev[p].pc = "done"
    /\ ev[E].allSigned # ev[E2].allSigned
    /\ \A n \in 1..Len(calls) : calls[n].ret

(* the positions in the log of the calls of that operation, of either
   evaluation *)
At(op) == { n \in 1..Len(calls) : calls[n].op = op }

(* C36: two overlapping evaluations with opposite verdicts, each working
   from its own label snapshot, every call succeeding: the PR keeps the
   label of whichever evaluation adds last, be it the older one; it holds
   both labels when neither snapshot made its evaluation remove the other's
   label, and exactly the label of an evaluation that removed the other's
   label after the other had added it. *)
C36_StaleLabelsSurvive ==
    OppositeVerdicts =>
        /\ calls[Last(At("AddPRLabels"))].arg[1] \in labels
        /\ At("RemovePRLabels") = {} => CLALabels \subseteq labels
        /\ \A r \in At("RemovePRLabels"), a \in At("AddPRLabels") :
             (calls[a].p # calls[r].p /\ a < r) =>
                 labels \cap CLALabels = {VerdictLabel(calls[r].p)}

(* both evaluations took their snapshot before either changed a label; the
   PR had neither label and ends with both *)
C36_Witness ==
    /\ OppositeVerdicts
    /\ pr0.labels = {OtherLabel}
    /\ \A p \in Procs : ev[p].prLabels = pr0.labels
    /\ labels = {CLALabelYes, CLALabelNo, OtherLabel}

(* both snapshots are the labels the PR had at first, so that either
   evaluation may be the older one: the PR ends with the label of the
   evaluation that failed it, and with the label of the one that passed it *)
FailLabelSurvives ==
    /\ OppositeVerdicts
    /\ \A p \in Procs : ev[p].prLabels = pr0.labels
    /\ labels \cap CLALabels = {CLALabelNo}

PassLabelSurvives ==
    /\ OppositeVerdicts
    /\ \A p \in Procs : ev[p].prLabels = pr0.labels
    /\ labels \cap CLALabels = {CLALabelYes}

----------------------------------------------------------------------------
(* Termination of one evaluation *)

(* a PR holding both labels and one guidance comment: every call of the
   reconciliation has its turn, the snapshot being empty when the label
   fetch fails *)
InitLive ==
    /\ labels = {CLALabelYes, CLALabelNo, OtherLabel}
    /\ comments = <<[ID |-> 1, Body |-> GuideOld]>>
    /\ nextId = Len(comments) + 1
    /\ CheckByCommitter \in BOOLEAN
    /\ calls = <<>>
    /\ pr0 = [labels |-> labels, comments |-> comments]
    /\ ev = [p \in Procs |-> Idle]

(* the handler runs to its end: a step that can be taken is taken *)
SpecLive == InitLive /\ [][Next]_vars /\ WF_vars(Next)

(* the evaluation has made its first call *)
Started(p) == CallsOf(p) # <<>>

(* the evaluation is over and has asked for a comment at least once *)
EndedWithComment(p) ==
    /\ ev[p].pc = "done"
    /\ Ops(p, "CreatePRComment") # <<>>

(* C37: an evaluation that has started comes to its end, and by then it has
   called CreatePRComment at least once, whichever way it went: commit fetch
   failed, no commit, Pending, Pass or Fail. *)
C37_EndsWithComment == Started(E) ~> EndedWithComment(E)

(* the Pass whose AddPRLabels failed: the one comment is the failure
   comment *)
C37_Witness ==
    /\ EndedWithComment(E)
    /\ EndedPass(E)
    /\ ~Ops(E, "AddPRLabels")[1].ret
    /\ Len(Ops(E, "CreatePRComment")) = 1
    /\ Ops(E, "RemovePRLabels") = <<>>

----------------------------------------------------------------------------
(* Direction of the label calls *)

(* C38: a Pass reconciliation never removes labelYes and never adds labelNo,
   a Fail reconciliation never removes labelNo and never adds labelYes; an
   evaluation calls RemovePRLabels at most once, and only for a label its
   snapshot holds. *)
C38_LabelCallsFollowVerdict ==
    LET removes == Ops(E, "RemovePRLabels")
        adds == Ops(E, "AddPRLabels")
    IN  /\ Len(removes) <= 1
        /\ \A n \in 1..Len(removes) :
             /\ removes[n].arg # <<QueryEscape(VerdictLabel(E))>>
             /\ \E l \in ev[E].prLabels : removes[n].arg = <<QueryEscape(l)>>
        /\ \A n \in 1..Len(adds) :
             /\ adds[n].arg # <<OppositeLabel(E)>>
             /\ adds[n].arg = <<VerdictLabel(E)>>
        /\ LabelCalls(E) # <<>> => AfterReturn(E)
        /\ labels \ CLALabels = pr0.labels \ CLALabels

(* a Pass that removed labelNo and added labelYes *)
C38_Witness ==
    /\ EndedPass(E)
    /\ Len(Ops(E, "RemovePRLabels")) = 1
    /\ Ops(E, "RemovePRLabels")[1].arg = <<"cla%2Fno">>
    /\ Ops(E, "RemovePRLabels")[1].ret
    /\ Ops(E, "AddPRLabels")[1].ret
    /\ labels = {CLALabelYes, OtherLabel}

----------------------------------------------------------------------------
(* The cancel command *)

(* some line of the text is the command and nothing else, in either case *)
HasLine(text, command) ==
    \E k \in 1..Len(text) :
        /\ ToLower(text[k]) = command
        /\ k = 1 \/ text[k - 1] = "\n"
        /\ k = Len(text) \/ text[k + 1] = "\n"

(* C39: a comment with a /cla cancel line, on a configured repository,
   starts no evaluation and posts nothing: no commit is fetched, no
   signature is checked, no label is added and no comment is created,
   listed or deleted, also when another line of the comment is
   /check-cla. *)
C39_CancelNeverEvaluates ==
    LET e == ev[E].evt IN
    ( /\ e.kind = "comment"
      /\ PolicyMatches(e)
      /\ HasLine(e.comment, "/cla cancel")
      /\ Handled(E) ) =>
        /\ ev[E].pc \in {"cancel", "cancelRemove", "done"}
        /\ \A n \in 1..Len(CallsOf(E)) :
             CallsOf(E)[n].op \in {"GetPullRequestLabels", "RemovePRLabels"}
        /\ Len(CallsOf(E)) <= 2
        /\ comments = pr0.comments
        /\ labels \subseteq pr0.labels

(* both commands in one comment: the cancel path ran to its end *)
C39_Witness ==
    /\ ev[E].evt.kind = "comment"
    /\ PolicyMatches(ev[E].evt)
    /\ ev[E].evt.comment = <<"/check-cla", "\n", "/cla cancel">>
    /\ ev[E].pc = "done"
    /\ Len(Ops(E, "GetPullRequestLabels")) = 1
    /\ Len(Ops(E, "RemovePRLabels")) = 1

----------------------------------------------------------------------------
(* Configuration validation: config.go *)

(* a nil error *)
NoError == <<>>

(* config.go lines 141-147 *)
LitePRCommitters == [Email : {"", LitePRCommitterEmail}, Name : {"", "u0"}]

(* config.go lines 96-125; RepoFilter is the embedded filter: its Repos, and
   FilterError, what its own Validate returns *)
RepoConfigs ==
    [Repos : {<<>>, <<"org/repo">>},
     FilterError : {NoError, <<"invalid repo filter">>},
     CLALabelYes : {"", CLALabelYes},
     CLALabelNo : {"", CLALabelNo},
     CheckURL : {"", CheckURL},
     SignURL : {"", SignURL},
     CheckByCommitter : BOOLEAN,
     LitePRCommitter : LitePRCommitters,
     FAQURL : {"", FAQURL}]

(* the fields of repoConfig with a required tag: json name and value, in
   the order of the struct; the embedded filter, check_by_committer and
   lite_pr_committer have none *)
RequiredOfRepoConfig(c) ==
    << <<"cla_label_yes", c.CLALabelYes>>,
       <<"cla_label_no", c.CLALabelNo>>,
       <<"check_url", c.CheckURL>>,
       <<"sign_url", c.SignURL>>,
       <<"faq_url", c.FAQURL>> >>

(* config.go lines 24-35: the global strings, all set; validation only asks
   whether a string is empty, so each is one value here *)
GlobalStrings ==
    [UserMarkFormat |-> "@__committer__",
     CommentCommandTrigger |-> "retry",
     CommentPRNoCommits |-> "no commits",
     CommentAllSigned |-> "all signed",
     CommentSomeNeedSign |-> "some need sign",
     CommentUpdateLabelFailed |-> "label failed",
     PlaceholderCommitter |-> "__committer__",
     PlaceholderCLASignGuideTitle |-> "### CLA Signature Guide",
     PlaceholderCLASignPassTitle |-> "### CLA Signature Pass"]

(* the fields of configuration with a required tag; config_items has none *)
RequiredOfConfiguration(c) ==
    << <<"user_mark_format", c.UserMarkFormat>>,
       <<"comment_command_trigger", c.CommentCommandTrigger>>,
       <<"comment_pr_no_commits", c.CommentPRNoCommits>>,
       <<"comment_all_signed", c.CommentAllSigned>>,
       <<"comment_some_need_sign", c.CommentSomeNeedSign>>,
       <<"comment_update_label_failed", c.CommentUpdateLabelFailed>>,
       <<"placeholder_committer", c.PlaceholderCommitter>>,
       <<"placeholder_cla_sign_guide_title", c.PlaceholderCLASignGuideTitle>>,
       <<"placeholder_cla_sign_pass_title", c.PlaceholderCLASignPassTitle>> >>

(* the configurations validated: no item or one, the global strings all
   set or one of them empty; a pointer is a sequence, empty when nil *)
Configurations ==
    LET strings == {GlobalStrings}
                   \cup { [GlobalStrings EXCEPT ![f] = ""] :
                            f \in DOMAIN GlobalStrings }
        items == {<<>>} \cup { <<r>> : r \in RepoConfigs }
    IN  {<<>>} \cup
        { <<[ConfigItems |-> i, Strings |-> s]>> : i \in items, s \in strings }

(* lines 54-75: the required fields whose string is empty are reported, in
   field order; the fields are not looked into *)
validateRequiredConfig(required) ==
    LET empty == SelectSeq(required, LAMBDA f : f[2] = "")
        missing == [k \in 1..Len(empty) |-> <<empty[k][1]>>]
    IN  IF Len(missing) # 0
        THEN <<"missing the follow config: ">> \o Join(missing, ", ")
        ELSE NoError

(* lines 128-139 *)
validateRepoConfig(c) ==
    IF Len(c.Repos) = 0
    THEN <<"the repositories configuration can not be empty">>
    ELSE IF c.FilterError # NoError THEN c.FilterError
    ELSE validateRequiredConfig(RequiredOfRepoConfig(c))

(* lines 38-52: the error of the first item that has one, else that of the
   global strings *)
Validate(c) ==
    IF c = <<>> THEN <<"configuration is nil">>
    ELSE LET items == c[1].ConfigItems
             bad == { k \in 1..Len(items) :
                        validateRepoConfig(items[k]) # NoError }
         IN  IF bad # {}
             THEN validateRepoConfig(
                      items[CHOOSE k \in bad : \A m \in bad : k <= m])
             ELSE validateRequiredConfig(RequiredOfConfiguration(c[1].Strings))

(* a configuration has been loaded *)
Loaded(c) == [pc |-> "loaded", cnf |-> c, err |-> NoError]

(* the configuration is validated once *)
ValidateConfiguration(p) ==
    /\ ev[p].pc = "loaded"
    /\ Set(p, [ev[p] EXCEPT !.pc = "validated", !.err = Validate(ev[p].cnf)])
    /\ UNCHANGED <<Platform, Fixed, calls>>

InitValidate ==
    /\ labels = {}
    /\ comments = <<>>
    /\ nextId = 1
    /\ CheckByCommitter = FALSE
    /\ calls = <<>>
    /\ pr0 = [labels |-> labels, comments |-> comments]
    /\ \E c \in Configurations : ev = [p \in Procs |-> Loaded(c)]

NextValidate == ValidateConfiguration("ev1")

SpecValidate == InitValidate /\ [][NextValidate]_vars

(* a repository policy of the configuration checks by committer without a
   lite committer: its email or its name is empty *)
LiteCommitterUnset(c) ==
    /\ c # <<>>
    /\ \E k \in 1..Len(c[1].ConfigItems) :
         LET r == c[1].ConfigItems[k] IN
         /\ r.CheckByCommitter
         /\ r.LitePRCommitter.Email = "" \/ r.LitePRCommitter.Name = ""

(* C40: Validate returns an error for a configuration with a repository
   policy in which check_by_committer is true and lite_pr_committer is not
   set. *)
C40_LiteCommitterRequired ==
    (ev[E].pc = "validated" /\ LiteCommitterUnset(ev[E].cnf)) =>
        ev[E].err # NoError

====
